---------------------------- MODULE Spec2Model ----------------------------
(***************************************************************************)
(* Groq customer-service pipeline: the retrying model client, the stage    *)
(* agents built on it, the human-review exchange, the progress tracker,    *)
(* the pipeline orchestrator and the interactive demo session.             *)
(*                                                                         *)
(* Texts are sequences of tokens.  A token is a string; "_" is a blank.    *)
(* Substring tests of the source ("UNSAFE" in response_clean) are tests    *)
(* on the marks a token carries after normalisation.                       *)
(***************************************************************************)
EXTENDS Integers, Sequences, FiniteSets, TLC

(***************************************************************************)
(* Bounds of the model.                                                    *)
(***************************************************************************)
MaxN == 3          \* largest max_retries tried by the client specification
MaxDelay == 2      \* largest retry_delay tried by the client specification
MaxRuns == 1       \* background runs the session specification may spawn
NumScenarios == 2  \* length of demo_scenarios
ReviewTimeout == 2 \* human_review_timeout, in polling intervals of one second
MaxWaiters == 2    \* concurrent callers of request_review
MaxResets == 1     \* calls of reset_demo in one behaviour
MaxSubmitters == 2 \* concurrent clients of /api/submit_review
MaxAdvancers == 2  \* concurrent clients of /api/next_scenario
MaxThreads == 2    \* threads of the server that execute at the same time

(***************************************************************************)
(* Text helpers.                                                           *)
(***************************************************************************)
RECURSIVE LStrip(_)
LStrip(t) == IF t # <<>> /\ Head(t) = "_" THEN LStrip(Tail(t)) ELSE t

RECURSIVE RStrip(_)
RStrip(t) ==
    IF t # <<>> /\ t[Len(t)] = "_" THEN RStrip(SubSeq(t, 1, Len(t) - 1)) ELSE t

\* str.strip()
Strip(t) == RStrip(LStrip(t))

RECURSIVE Pow2(_)
Pow2(n) == IF n <= 0 THEN 1 ELSE 2 * Pow2(n - 1)

(***************************************************************************)
(* The model service.  One attempt of the service either raises, answers   *)
(* without choices, or answers with a content (possibly empty).            *)
(***************************************************************************)
Raise == [t |-> "raise", c |-> <<>>]
NoChoices == [t |-> "nochoices", c |-> <<>>]
Content(c) == [t |-> "content", c |-> c]

\* base.py line 49: not response.choices or not ...message.content
\* Variant of AttemptFails: only an exception of the service is a failure.
AttemptFailsOnRaise(o) == o.t = "raise"

AttemptFails(o) == o.t = "raise" \/ o.t = "nochoices" \/ o.c = <<>>

NoCause == 0 - 1

\* Variant of RequestLoop: the wait before a retry does not grow.
RECURSIVE RequestLoopFlatWait(_, _, _, _, _, _)
RequestLoopFlatWait(a, max_retries, retry_delay, svc, calls, waits) ==
    IF a >= max_retries
    THEN [kind |-> "none", value |-> <<>>, calls |-> calls, waits |-> waits,
          cause |-> NoCause]
    ELSE IF ~AttemptFails(svc[a + 1])
    THEN [kind |-> "return", value |-> Strip(svc[a + 1].c),
          calls |-> calls + 1, waits |-> waits, cause |-> NoCause]
    ELSE IF a = max_retries - 1
    THEN [kind |-> "raise", value |-> <<>>, calls |-> calls + 1,
          waits |-> waits, cause |-> a]
    ELSE RequestLoopFlatWait(a + 1, max_retries, retry_delay, svc, calls + 1,
                             Append(waits, retry_delay))

\* Variant of RequestLoop: the last attempt is recognised one attempt late.
RECURSIVE RequestLoopLateGiveUp(_, _, _, _, _, _)
RequestLoopLateGiveUp(a, max_retries, retry_delay, svc, calls, waits) ==
    IF a >= max_retries
    THEN [kind |-> "none", value |-> <<>>, calls |-> calls, waits |-> waits,
          cause |-> NoCause]
    ELSE IF ~AttemptFails(svc[a + 1])
    THEN [kind |-> "return", value |-> Strip(svc[a + 1].c),
          calls |-> calls + 1, waits |-> waits, cause |-> NoCause]
    ELSE IF a = max_retries
    THEN [kind |-> "raise", value |-> <<>>, calls |-> calls + 1,
          waits |-> waits, cause |-> a]
    ELSE RequestLoopLateGiveUp(a + 1, max_retries, retry_delay, svc, calls + 1,
                               Append(waits, retry_delay * Pow2(a)))

\* The loop of _make_groq_request from attempt a on.  svc[a + 1] is what the
\* service does on attempt a.  kind "none" is the fall-through of the for
\* loop (the function ends without a return statement).
RECURSIVE RequestLoop(_, _, _, _, _, _)
RequestLoop(a, max_retries, retry_delay, svc, calls, waits) ==
    IF a >= max_retries
    THEN [kind |-> "none", value |-> <<>>, calls |-> calls, waits |-> waits,
          cause |-> NoCause]
    ELSE IF ~AttemptFails(svc[a + 1])
    THEN [kind |-> "return", value |-> Strip(svc[a + 1].c),
          calls |-> calls + 1, waits |-> waits, cause |-> NoCause]
    ELSE IF a = max_retries - 1
    THEN [kind |-> "raise", value |-> <<>>, calls |-> calls + 1,
          waits |-> waits, cause |-> a]
    ELSE RequestLoop(a + 1, max_retries, retry_delay, svc, calls + 1,
                     Append(waits, retry_delay * Pow2(a)))

MakeGroqRequest(max_retries, retry_delay, svc) ==
    RequestLoop(0, max_retries, retry_delay, svc, 0, <<>>)

(***************************************************************************)
(* Normalisation and scanning of a model answer.                           *)
(***************************************************************************)
\* str.upper(), token by token
UpperTok(k) ==
    CASE k = "safe" -> "SAFE"
      [] k = "unsafe" -> "UNSAFE"
      [] k = "o3" -> "O3"
      [] k = "harmful" -> "HARMFUL"
      [] k = "pass" -> "PASS"
      [] k = "fail" -> "FAIL"
      [] k = "casual_language" -> "CASUAL_LANGUAGE"
      [] k = "inappropriate_urgency" -> "INAPPROPRIATE_URGENCY"
      [] k = "rude" -> "RUDE"
      [] OTHER -> k

Upper(t) == [i \in 1..Len(t) |-> UpperTok(t[i])]

\* The substrings of a token that the parsers look for (case-sensitive).
Marks(k) ==
    CASE k = "UNSAFE" -> {"UNSAFE"}
      [] k = "O1" -> {"O1"}
      [] k = "O3" -> {"O3"}
      [] k = "HARMFUL" -> {"HARMFUL"}
      [] k = "harmful" -> {"harmful"}
      [] k = "FAIL" -> {"FAIL"}
      [] k = "CASUAL_LANGUAGE" -> {"CASUAL"}
      [] k = "INAPPROPRIATE_URGENCY" -> {"INAPPROPRIATE", "URGENCY"}
      [] OTHER -> {}

\* pattern in text
Contains(t, pattern) == \E i \in 1..Len(t) : pattern \in Marks(t[i])

\* The codes of the table entries whose pattern occurs in t, in table order.
RECURSIVE Matching(_, _)
Matching(table, t) ==
    IF table = <<>> THEN <<>>
    ELSE IF Contains(t, Head(table)[1])
         THEN <<Head(table)[2]>> \o Matching(Tail(table), t)
         ELSE Matching(Tail(table), t)

category_names ==
    << <<"O1", "violence_hate">>, <<"O2", "sexual_content">>,
       <<"O3", "weapons">>, <<"O4", "substances">>,
       <<"O5", "self_harm">>, <<"O6", "criminal_planning">> >>

unsafe_keywords == {"harmful", "violation", "inappropriate", "dangerous"}

\* Variant of ParseLlamaguardResponse: the keywords are looked for in
\* upper case as well.
ParseLlamaguardResponseAnyCase(response) ==
    LET response_clean == Upper(Strip(response))
        violations == Matching(category_names, response_clean)
    IN  IF Contains(response_clean, "UNSAFE")
        THEN IF violations = <<>> THEN <<FALSE, <<"content_violation">> >>
             ELSE <<FALSE, violations>>
        ELSE IF \E k \in unsafe_keywords : Contains(response_clean, UpperTok(k))
        THEN <<FALSE, <<"potential_violation">> >>
        ELSE <<TRUE, <<>> >>

\* GuardAgent._parse_llamaguard_response: <<is_safe, violations>>
ParseLlamaguardResponse(response) ==
    LET response_clean == Upper(Strip(response))
        violations == Matching(category_names, response_clean)
    IN  IF Contains(response_clean, "UNSAFE")
        THEN IF violations = <<>> THEN <<FALSE, <<"content_violation">> >>
             ELSE <<FALSE, violations>>
        ELSE IF \E k \in unsafe_keywords : Contains(response_clean, k)
        THEN <<FALSE, <<"potential_violation">> >>
        ELSE <<TRUE, <<>> >>

issue_patterns ==
    << <<"CASUAL", "casual_language">>, <<"DISMISSIVE", "dismissive_language">>,
       <<"UNPROFESSIONAL", "unprofessional_tone">>,
       <<"JARGON", "technical_jargon">>, <<"BLAME", "blame_language">>,
       <<"ABSOLUTE", "absolute_statements">>,
       <<"INAPPROPRIATE", "inappropriate_language">>,
       <<"URGENCY", "inappropriate_urgency">>,
       <<"EMOTION", "inappropriate_emotions">> >>

\* ToneAgent._parse_tone_response: <<passes, issues>>
ParseToneResponse(response) ==
    LET response_clean == Upper(Strip(response))
        issues == Matching(issue_patterns, response_clean)
    IN  IF Contains(response_clean, "FAIL")
        THEN IF issues = <<>> THEN <<FALSE, <<"tone_violation">> >>
             ELSE <<FALSE, issues>>
        ELSE <<TRUE, <<>> >>

(***************************************************************************)
(* The moderation agents.  A ModerationResult is [passes, issues]; raised  *)
(* tells whether the call ended by an exception instead of a result.       *)
(***************************************************************************)
Moderation(passes, issues) ==
    [passes |-> passes, issues |-> issues, raised |-> FALSE]

\* Variant of CheckSafety: a failed request blocks the content.
CheckSafetyFailClosed(max_retries, retry_delay, svc) ==
    LET response == MakeGroqRequest(max_retries, retry_delay, svc)
        parsed == ParseLlamaguardResponse(response.value)
    IN  IF response.kind = "return"
        THEN Moderation(parsed[1], IF parsed[1] THEN <<>> ELSE parsed[2])
        ELSE Moderation(FALSE, <<"safety_check_error">>)

\* GuardAgent.check_safety.  A request that raises, or that ends without a
\* text (the parser then fails on None), leads to the except branch.
CheckSafety(max_retries, retry_delay, svc) ==
    LET response == MakeGroqRequest(max_retries, retry_delay, svc)
        parsed == ParseLlamaguardResponse(response.value)
    IN  IF response.kind = "return"
        THEN Moderation(parsed[1], IF parsed[1] THEN <<>> ELSE parsed[2])
        ELSE Moderation(TRUE, <<"safety_check_error">>)

\* ToneAgent.validate_tone
\* Variant of ValidateTone: an error of the tone check counts as a failed
\* validation.
ValidateToneFailClosed(max_retries, retry_delay, svc) ==
    LET response == MakeGroqRequest(max_retries, retry_delay, svc)
        parsed == ParseToneResponse(response.value)
    IN  IF response.kind = "return"
        THEN Moderation(parsed[1], parsed[2])
        ELSE Moderation(FALSE, <<"tone_validation_error">>)

ValidateTone(max_retries, retry_delay, svc) ==
    LET response == MakeGroqRequest(max_retries, retry_delay, svc)
        parsed == ParseToneResponse(response.value)
    IN  IF response.kind = "return"
        THEN Moderation(parsed[1], parsed[2])
        ELSE Moderation(TRUE, <<"tone_validation_error">>)

(***************************************************************************)
(* The generating agents.                                                  *)
(***************************************************************************)
\* Number of characters of a token; a word that stands for a sentence is
\* longer than the 20 characters the agents require.
TokLen(k) ==
    CASE k = "_" -> 1
      [] k = "ok" -> 2
      [] k = "Response:" -> 9
      [] k = "Customer service response:" -> 26
      [] OTHER -> 30

RECURSIVE CharLen(_)
CharLen(t) == IF t = <<>> THEN 0 ELSE TokLen(Head(t)) + CharLen(Tail(t))

MinLength == 20

\* ResponseAgent._get_fallback_response
FallbackResponse == <<"fallback_reply">>

\* cleaned[len(prefix):].strip() when cleaned starts with prefix
DropPrefix(cleaned, prefix) ==
    IF cleaned # <<>> /\ Head(cleaned) = prefix THEN Strip(Tail(cleaned))
    ELSE cleaned

\* ResponseAgent._clean_response
CleanResponse(response) ==
    LET cleaned == DropPrefix(DropPrefix(Strip(response), "Response:"),
                              "Customer service response:")
    IN  IF CharLen(cleaned) < MinLength THEN FallbackResponse ELSE cleaned

\* Variant of GenerateResponse: a failed request leaves the draft empty.
GenerateResponseNoFallback(max_retries, retry_delay, svc) ==
    LET response == MakeGroqRequest(max_retries, retry_delay, svc)
    IN  IF response.kind = "return" THEN CleanResponse(response.value)
        ELSE <<>>

\* ResponseAgent.generate_response; a request that raises, or that returns
\* None (whose strip() raises), ends in the except clause
GenerateResponse(max_retries, retry_delay, svc) ==
    LET response == MakeGroqRequest(max_retries, retry_delay, svc)
    IN  IF response.kind = "return" THEN CleanResponse(response.value)
        ELSE FallbackResponse

\* Variant of CleanRewrite: a short rewrite is accepted.
CleanRewriteAnyLength(rewritten, original) ==
    LET cleaned == Strip(rewritten)
    IN  IF Strip(cleaned) = Strip(original) THEN original ELSE cleaned

\* RewriteAgent._clean_rewrite
CleanRewrite(rewritten, original) ==
    LET cleaned == Strip(rewritten)
    IN  IF CharLen(cleaned) < MinLength THEN original
        ELSE IF Strip(cleaned) = Strip(original) THEN original
        ELSE cleaned

\* RewriteAgent.rewrite_professional
RewriteProfessional(content, max_retries, retry_delay, svc) ==
    LET response == MakeGroqRequest(max_retries, retry_delay, svc)
    IN  IF response.kind = "return" THEN CleanRewrite(response.value, content)
        ELSE content

(***************************************************************************)
(* State.                                                                  *)
(***************************************************************************)
VARIABLES
    config,                  \* max_retries, retry_delay, human_review_timeout
    call,                    \* one call of the model client or of an agent
    run,                     \* the pipeline runs: position and locals
    waiter,                  \* direct callers of request_review
    submitter,               \* clients in a call of /api/submit_review
    resetting,               \* how far a call of /api/reset_demo has got
    advancing,               \* calls of /api/next_scenario past their state test
    review_queue,            \* HumanLoopManager.review_queue
    result_queue,            \* HumanLoopManager.result_queue
    active_reviews,          \* HumanLoopManager.active_reviews
    next_review_id,          \* review ids handed out so far (uuid4 is fresh)
    pipeline_progress,       \* HumanLoopManager.pipeline_progress
    demo_state,              \* HumanLoopManager.demo_state
    current_scenario_index,  \* HumanLoopManager.current_scenario_index
    demo_results,            \* HumanLoopManager.demo_results
    current_scenario_result, \* HumanLoopManager.current_scenario_result
    current_scenario_id,     \* HumanLoopManager.current_scenario_id
    results_history,         \* GroqCustomerServiceDemo.results_history
    resets,                  \* history: number of reset_demo calls so far
    after_reset,             \* history: reset_demo was the last operation
                             \* that creates or clears progress entries
    progress_lock,           \* HumanLoopManager.progress_lock: its holder
    review_lock,             \* HumanLoopManager.review_lock: its holder
    thread                   \* the threads of the server: what each one
                             \* executes and how far it has got

locking == <<progress_lock, review_lock, thread>>
clientVars == <<config, call>>
runVars == <<run, results_history>>
reviewVars == <<review_queue, result_queue, active_reviews, next_review_id>>
sessionVars ==
    <<pipeline_progress, demo_state, current_scenario_index, demo_results,
      current_scenario_result, current_scenario_id, resets, after_reset>>

vars == <<config, call, run, waiter, submitter, resetting, advancing, review_queue, result_queue,
          active_reviews, next_review_id, pipeline_progress, demo_state,
          current_scenario_index, demo_results, current_scenario_result,
          current_scenario_id, results_history, resets, after_reset,
          progress_lock, review_lock, thread>>

ThreadIds == 1..MaxThreads
\* threading.Lock(): nobody holds it
Unlocked == 0
IdleThread == [handler |-> "none", pc |-> 0]

RunIds == 1..MaxRuns
\* the runs of the restart specification: one more, started after a reset
AllRunIds == 1..(MaxRuns + 1)
WaiterIds == 1..MaxWaiters
SubmitterIds == 1..MaxSubmitters

\* scenario ids: interactive_<i> is i; None is NoId; the id of a direct,
\* untracked call (scenario_<time>) is UntrackedId
NoId == 0
ScenarioIds == 1..NumScenarios
UntrackedId == NumScenarios + 1

\* demo_scenarios: the customer input of scenario i is i
demo_scenarios == [i \in 1..NumScenarios |-> i]

(***************************************************************************)
(* PipelineStep and PipelineProgress (human_loop.py).  by, completions and *)
(* gen are history fields: the run that wrote the step, the number of      *)
(* times it was completed, and the resets seen when the entry was made.    *)
(***************************************************************************)
NoProgress ==
    [present |-> FALSE, customer_input |-> 0, steps |-> <<>>,
     current_step |-> 0, ended |-> FALSE, gen |-> 0]

NewProgress(customer_input, g) ==
    [present |-> TRUE, customer_input |-> customer_input, steps |-> <<>>,
     current_step |-> 0, ended |-> FALSE, gen |-> g]

NewStep(step_name, details, by) ==
    [step_name |-> step_name, status |-> "running", details |-> details,
     ended |-> FALSE, by |-> by, completions |-> 0, touched |-> {by}]

\* Variant of AddStep: current_step is the number of steps before the call.
AddStepCountedBefore(progress, step_name, details, by) ==
    [progress EXCEPT !.steps = Append(@, NewStep(step_name, details, by)),
                     !.current_step = Len(progress.steps)]

\* PipelineProgress.add_step
AddStep(progress, step_name, details, by) ==
    [progress EXCEPT !.steps = Append(@, NewStep(step_name, details, by)),
                     !.current_step = Len(progress.steps) + 1]

\* PipelineProgress.complete_current_step
CompleteCurrentStep(progress, details, status, by) ==
    IF progress.steps = <<>> THEN progress
    ELSE [progress EXCEPT
            !.steps[Len(progress.steps)] =
                [@ EXCEPT !.ended = TRUE, !.status = status,
                          !.details = IF details # "" THEN details ELSE @,
                          !.completions = @ + 1,
                          !.touched = @ \cup {by}]]

\* Variant of TrackPipelineStep: an unknown id gets a fresh entry.
TrackPipelineStepCreating(pp, scenario_id, step_name, details, by) ==
    IF scenario_id \in DOMAIN pp
    THEN [pp EXCEPT ![scenario_id] =
            AddStep(IF @.present THEN @ ELSE NewProgress(0, by[2]),
                    step_name, details, by)]
    ELSE pp

\* HumanLoopManager.track_pipeline_step
TrackPipelineStep(pp, scenario_id, step_name, details, by) ==
    IF scenario_id \in DOMAIN pp /\ pp[scenario_id].present
    THEN [pp EXCEPT ![scenario_id] = AddStep(@, step_name, details, by)]
    ELSE pp

\* Variant of CompletePipelineStep: the completion of a failed stage is
\* not recorded.
CompletePipelineStepOnSuccess(pp, scenario_id, details, status, by) ==
    IF scenario_id \in DOMAIN pp /\ pp[scenario_id].present /\ status # "failed"
    THEN [pp EXCEPT ![scenario_id] = CompleteCurrentStep(@, details, status, by)]
    ELSE pp

\* HumanLoopManager.complete_pipeline_step
CompletePipelineStep(pp, scenario_id, details, status, by) ==
    IF scenario_id \in DOMAIN pp /\ pp[scenario_id].present
    THEN [pp EXCEPT ![scenario_id] = CompleteCurrentStep(@, details, status, by)]
    ELSE pp

\* Variant of CompletePipeline: the end time is not set.
CompletePipelineUnmarked(pp, scenario_id) == pp

\* HumanLoopManager.complete_pipeline
CompletePipeline(pp, scenario_id) ==
    IF scenario_id \in DOMAIN pp /\ pp[scenario_id].present
    THEN [pp EXCEPT ![scenario_id].ended = TRUE]
    ELSE pp

(***************************************************************************)
(* PipelineResult (utils.py).  human_time None is NoTime.                  *)
(***************************************************************************)
NoTime == 0 - 1

NoResult ==
    [scenario_id |-> NoId, customer_input |-> 0, final_response |-> <<>>,
     ai_time |-> 0, human_time |-> NoTime, safety_issues |-> <<>>,
     tone_issues |-> <<>>, success |-> FALSE]

\* Variant of CreateFailedResult: the issue codes are not passed on.
CreateFailedResultNoIssues(scenario_id, customer_input, error_message, safety_issues) ==
    [scenario_id |-> scenario_id, customer_input |-> customer_input,
     final_response |-> <<"Processing failed:", error_message>>,
     ai_time |-> 0, human_time |-> NoTime, safety_issues |-> <<>>,
     tone_issues |-> <<>>, success |-> FALSE]

\* GroqCustomerServiceDemo._create_failed_result
CreateFailedResult(scenario_id, customer_input, error_message, safety_issues) ==
    [scenario_id |-> scenario_id, customer_input |-> customer_input,
     final_response |-> <<"Processing failed:", error_message>>,
     ai_time |-> 0, human_time |-> NoTime, safety_issues |-> safety_issues,
     tone_issues |-> <<>>, success |-> FALSE]

\* The branch conditions of the orchestrator on a ModerationResult.
SafetyBlocksNever(result) == FALSE

\* if not safety_result.passes / if not final_safety.passes
SafetyBlocks(result) == ~result.passes

\* if not tone_result.passes
ToneNeedsRewrite(result) == ~result.passes

\* Variant of ReportedToneIssues: the issues of the recheck are reported.
ReportedToneIssuesOfRecheck(original_tone_issues, final_tone_result) ==
    final_tone_result.issues

\* tone_issues=original_tone_issues
ReportedToneIssues(original_tone_issues, final_tone_result) ==
    original_tone_issues

(***************************************************************************)
(* The review exchange (human_loop.py).  req is a history field: the       *)
(* caller whose request the data, and later the outcome, belongs to.       *)
(***************************************************************************)
NoCaller == <<"none", 0>>

NoReview ==
    [original_response |-> <<>>, edited_response |-> <<>>, human_time_ms |-> 0,
     customer_input |-> 0, review_notes |-> "", req |-> NoCaller]

ReviewData(customer_input, ai_response, req) ==
    [customer_input |-> customer_input, ai_response |-> ai_response, req |-> req]

TimeoutNotes == "Timed out - using original response"

\* The synthetic outcome returned when the wait times out.
TimeoutResult(customer_input, ai_response, timeout, req) ==
    [original_response |-> ai_response, edited_response |-> ai_response,
     human_time_ms |-> timeout * 1000, customer_input |-> customer_input,
     review_notes |-> TimeoutNotes, req |-> req]

PollInterval == 1

\* Variant of AfterEmptyPoll: the start of the wait is taken anew each round.
AfterEmptyPollRestarted(elapsed) == 0

\* time.time() - start_time after result_queue.get(timeout=1.0) found nothing
AfterEmptyPoll(elapsed) == elapsed + PollInterval

\* Variant of WaitOver: the wait gives up one polling interval early.
WaitOverEarly(elapsed, timeout) == ~(elapsed + PollInterval < timeout)

\* while time.time() - start_time < timeout
WaitOver(elapsed, timeout) == ~(elapsed < timeout)

\* edited_response: null in the body of submit_review
NoneText == <<"None">>

\* HumanReviewResult built by submit_review; edited is <<>> when the reviewer
\* sends no edited_response (data.get falls back to the AI response)
ReviewOutcome(review_data, edited, seconds) ==
    [original_response |-> review_data.ai_response,
     edited_response |-> IF edited = <<>> THEN review_data.ai_response ELSE edited,
     human_time_ms |-> seconds * 1000,
     customer_input |-> review_data.customer_input,
     review_notes |-> "reviewed", req |-> review_data.req]

(***************************************************************************)
(* A pipeline run: its position and the locals of                          *)
(* process_single_scenario(_with_tracking).  calls, stage_time (the sum of *)
(* the latencies of the stage calls made) and fault (the text of the       *)
(* exception raised in the run) are history fields.                        *)
(***************************************************************************)
NoFault == "none"

NoModeration == [passes |-> FALSE, issues |-> <<>>, raised |-> FALSE]

ZeroCalls ==
    [guard |-> 0, response |-> 0, review |-> 0, tone |-> 0, rewrite |-> 0]

IdleRun ==
    [pc |-> "idle", kind |-> "none", sid |-> NoId, gen |-> 0,
     customer_input |-> 0, safety_result |-> NoModeration,
     guard1_time |-> 0, ai_response |-> <<>>, response_time |-> 0,
     final_response |-> <<>>, human_result |-> NoReview, human_time |-> 0,
     elapsed |-> 0, final_safety_content |-> <<>>,
     final_safety |-> NoModeration, guard2_time |-> 0,
     tone_content |-> <<>>, tone_result |-> NoModeration, tone_time |-> 0,
     original_tone_issues |-> <<>>, rewrite_time |-> 0,
     final_tone_result |-> NoModeration, calls |-> ZeroCalls,
     stage_time |-> 0, fault |-> NoFault, result |-> NoResult]

By(r) == <<r, run[r].gen>>

\* Variant of SuccessResult: the time waited for the review counts as AI time.
SuccessResultWithHumanTime(l) ==
    [scenario_id |-> l.sid, customer_input |-> l.customer_input,
     final_response |-> l.final_response,
     ai_time |-> l.guard1_time + l.response_time + l.guard2_time
                   + l.tone_time + l.rewrite_time + l.human_time,
     human_time |-> IF l.human_time > 0 THEN l.human_time ELSE NoTime,
     safety_issues |-> IF ~l.safety_result.passes
                       THEN l.safety_result.issues ELSE <<>>,
     tone_issues |-> ReportedToneIssues(l.original_tone_issues,
                                        l.final_tone_result),
     success |-> TRUE]

\* The successful PipelineResult built from the locals l of a run.
SuccessResult(l) ==
    [scenario_id |-> l.sid, customer_input |-> l.customer_input,
     final_response |-> l.final_response,
     ai_time |-> l.guard1_time + l.response_time + l.guard2_time
                   + l.tone_time + l.rewrite_time,
     human_time |-> IF l.human_time > 0 THEN l.human_time ELSE NoTime,
     safety_issues |-> IF ~l.safety_result.passes
                       THEN l.safety_result.issues ELSE <<>>,
     tone_issues |-> ReportedToneIssues(l.original_tone_issues,
                                        l.final_tone_result),
     success |-> TRUE]

\* The end of a tracked run: the result is stored by the pipeline
\* (results_history) and by _process_scenario_async (demo_results,
\* current_scenario_result, complete_pipeline).
FinishTracked(r, l, result, pp) ==
    \E res \in {result} :
        /\ results_history' = Append(results_history, res)
        /\ demo_results' = Append(demo_results, res)
        /\ current_scenario_result' = res
        /\ pipeline_progress' = CompletePipeline(pp, l.sid)
        /\ run' = [run EXCEPT ![r] = [l EXCEPT !.pc = "done", !.result = res]]

\* The end of an untracked run.
\* Variant of FinishUntracked: the result is returned and not stored.
FinishUntrackedUnrecorded(r, l, result) ==
    \E res \in {result} :
        /\ results_history' = results_history
        /\ run' = [run EXCEPT ![r] = [l EXCEPT !.pc = "done", !.result = res]]

FinishUntracked(r, l, result) ==
    \E res \in {result} :
        /\ results_history' = Append(results_history, res)
        /\ run' = [run EXCEPT ![r] = [l EXCEPT !.pc = "done", !.result = res]]

\* What a tracked run leaves alone while it stays in the pipeline.
TrackedFrame ==
    UNCHANGED <<locking, config, call, waiter, submitter, resetting, advancing, active_reviews, next_review_id,
                demo_state, current_scenario_index, current_scenario_id,
                resets, after_reset>>

UntrackedFrame ==
    UNCHANGED <<locking, config, call, waiter, submitter, resetting, advancing, review_queue, result_queue,
                active_reviews, next_review_id, pipeline_progress, demo_state,
                current_scenario_index, demo_results, current_scenario_result,
                current_scenario_id, resets, after_reset>>

(***************************************************************************)
(* The tracked run: _process_scenario_async calling                        *)
(* process_single_scenario_with_tracking.  One action is the code between  *)
(* two awaits; e gives the behaviours of the model service and the         *)
(* latencies the environment may show.                                     *)
(***************************************************************************)
\* human_loop.py 426-433, pipeline_demo_vercel.py 150-158: up to the first
\* await of check_safety
BeginTracked(r) ==
    /\ run[r].pc = "started"
    /\ LET sid == run[r].sid
           p1 == TrackPipelineStep(pipeline_progress, sid, "pipeline_start",
                                   "starting", By(r))
           p2 == CompletePipelineStep(p1, sid, "initialized", "completed", By(r))
           p3 == TrackPipelineStep(p2, sid, "safety_check", "checking", By(r))
       IN  pipeline_progress' = p3
    /\ run' = [run EXCEPT ![r].pc = "safety_check"]
    /\ UNCHANGED <<results_history, demo_results, current_scenario_result,
                   review_queue, result_queue>>
    /\ TrackedFrame

\* pipeline_demo_vercel.py 158-173: the first safety check returns
SafetyCheckReturns(r, e) ==
    /\ run[r].pc = "safety_check"
    /\ run[r].kind = "tracked"
    /\ \E svc \in e.guard, lat \in e.lat :
        \E safety_result \in {CheckSafety(config.max_retries, config.retry_delay, svc)} :
        \E l \in {[run[r] EXCEPT !.safety_result = safety_result,
                                !.guard1_time = lat,
                                !.calls.guard = @ + 1,
                                !.stage_time = @ + lat]} :
        LET sid == run[r].sid
        IN  IF SafetyBlocks(safety_result)
            THEN FinishTracked(r, l,
                    CreateFailedResult(sid, l.customer_input,
                        "Initial safety check failed", safety_result.issues),
                    CompletePipelineStep(pipeline_progress, sid,
                        "safety_failed", "failed", By(r)))
            ELSE /\ pipeline_progress' =
                        TrackPipelineStep(
                            CompletePipelineStep(pipeline_progress, sid,
                                "safety_passed", "completed", By(r)),
                            sid, "response_generation", "generating", By(r))
                 /\ run' = [run EXCEPT ![r] = [l EXCEPT !.pc = "response_generation"]]
                 /\ UNCHANGED <<results_history, demo_results,
                                current_scenario_result>>
    /\ UNCHANGED <<review_queue, result_queue>>
    /\ TrackedFrame

\* pipeline_demo_vercel.py 173-188, 296-304 / 205-213: the response agent
\* returns; the review is requested, or skipped
ResponseReturns(r, e) ==
    /\ run[r].pc = "response_generation"
    /\ run[r].kind = "tracked"
    /\ \E svc \in e.response, lat \in e.lat :
        \E ai_response \in {GenerateResponse(config.max_retries, config.retry_delay, svc)} :
        \E l \in {[run[r] EXCEPT !.ai_response = ai_response,
                                !.response_time = lat,
                                !.final_response = ai_response,
                                !.human_time = 0,
                                !.calls.response = @ + 1,
                                !.stage_time = @ + lat]} :
        LET sid == run[r].sid
            p1 == CompletePipelineStep(pipeline_progress, sid,
                                       "response_generated", "completed", By(r))
        IN  IF config.human_review_timeout > 0
            THEN /\ pipeline_progress' =
                        TrackPipelineStep(p1, sid, "human_review", "waiting", By(r))
                 /\ review_queue' =
                        Append(review_queue,
                               ReviewData(l.customer_input, ai_response, <<"run", r>>))
                 /\ run' = [run EXCEPT ![r] =
                        [l EXCEPT !.pc = "human_review", !.elapsed = 0,
                                  !.calls.review = @ + 1]]
            ELSE /\ pipeline_progress' =
                        TrackPipelineStep(
                            CompletePipelineStep(
                                TrackPipelineStep(p1, sid, "human_review",
                                                  "disabled", By(r)),
                                sid, "review_skipped", "completed", By(r)),
                            sid, "final_safety", "checking", By(r))
                 /\ review_queue' = review_queue
                 /\ run' = [run EXCEPT ![r] = [l EXCEPT !.pc = "final_safety"]]
    /\ UNCHANGED <<results_history, demo_results, current_scenario_result,
                   result_queue>>
    /\ TrackedFrame

\* human_time = (time.perf_counter() - human_start) * 1000: the wait of
\* elapsed seconds and what the clock shows on top of it, in ms
ClockOverheads == {0, 1}

MeasuredMs(elapsed, overhead) == elapsed * 1000 + overhead

\* len(None)
LenFault == "object of type 'NoneType' has no len()"

\* A handler that drops the exception text.
HandlerResultNoText(scenario_id, customer_input, fault) ==
    CreateFailedResult(scenario_id, customer_input, "", <<>>)

\* pipeline_demo_vercel.py 286-291: except Exception as e
HandlerResult(scenario_id, customer_input, fault) ==
    CreateFailedResult(scenario_id, customer_input, fault, <<>>)

\* Variant of AfterReview: the run goes on with the draft of the response
\* agent.
AfterReviewKeepsDraft(r, l0, human_result, human_time) ==
    \E l \in {[l0 EXCEPT !.human_result = human_result,
                          !.human_time = human_time,
                          !.final_response = l0.ai_response]} :
    LET sid == l0.sid
        changes_made == l.final_response # l.ai_response
    IN  IF l.final_response = NoneText
        THEN /\ FinishTracked(r, [l EXCEPT !.fault = LenFault],
                    HandlerResult(sid, l.customer_input, LenFault),
                    CompletePipeline(
                        CompletePipelineStep(pipeline_progress, sid,
                            "pipeline_failed", "failed", By(r)),
                        sid))
        ELSE /\ pipeline_progress' =
                   TrackPipelineStep(
                       CompletePipelineStep(pipeline_progress, sid,
                           IF changes_made THEN "review_changes"
                           ELSE "review_no_changes",
                           "completed", By(r)),
                       sid, "final_safety", "checking", By(r))
             /\ run' = [run EXCEPT ![r] = [l EXCEPT !.pc = "final_safety"]]
             /\ UNCHANGED <<results_history, demo_results,
                            current_scenario_result>>

\* pipeline_demo_vercel.py 190-199, 211-213 / 286-291: the review wait has
\* returned human_result; human_time is what the run measured
AfterReview(r, l0, human_result, human_time) ==
    \E l \in {[l0 EXCEPT !.human_result = human_result,
                          !.human_time = human_time,
                          !.final_response = human_result.edited_response]} :
    LET sid == l0.sid
        changes_made == l.final_response # l.ai_response
    IN  IF l.final_response = NoneText
        THEN /\ FinishTracked(r, [l EXCEPT !.fault = LenFault],
                    HandlerResult(sid, l.customer_input, LenFault),
                    CompletePipeline(
                        CompletePipelineStep(pipeline_progress, sid,
                            "pipeline_failed", "failed", By(r)),
                        sid))
        ELSE /\ pipeline_progress' =
                   TrackPipelineStep(
                       CompletePipelineStep(pipeline_progress, sid,
                           IF changes_made THEN "review_changes"
                           ELSE "review_no_changes",
                           "completed", By(r)),
                       sid, "final_safety", "checking", By(r))
             /\ run' = [run EXCEPT ![r] = [l EXCEPT !.pc = "final_safety"]]
             /\ UNCHANGED <<results_history, demo_results,
                            current_scenario_result>>

\* pipeline_demo_vercel.py 305-330: one round of the polling loop of
\* _request_review_via_tracker
ReviewPoll(r) ==
    /\ run[r].pc = "human_review"
    /\ LET l == run[r]
           timeout == config.human_review_timeout
       IN  IF WaitOver(l.elapsed, timeout)
           THEN /\ \E overhead \in ClockOverheads :
                      AfterReview(r, l,
                          TimeoutResult(l.customer_input, l.ai_response, timeout,
                                        <<"run", r>>),
                          MeasuredMs(l.elapsed, overhead))
                /\ result_queue' = result_queue
           ELSE IF result_queue # <<>>
           THEN /\ \E overhead \in ClockOverheads :
                      AfterReview(r, l, Head(result_queue),
                                  MeasuredMs(l.elapsed, overhead))
                /\ result_queue' = Tail(result_queue)
           ELSE /\ run' = [run EXCEPT ![r].elapsed = AfterEmptyPoll(@)]
                /\ UNCHANGED <<result_queue, pipeline_progress, results_history,
                               demo_results, current_scenario_result>>
    /\ UNCHANGED review_queue
    /\ TrackedFrame

\* pipeline_demo_vercel.py 213-231: the second safety check returns
FinalSafetyReturns(r, e) ==
    /\ run[r].pc = "final_safety"
    /\ run[r].kind = "tracked"
    /\ \E svc \in e.guard, lat \in e.lat :
        \E final_safety \in {CheckSafety(config.max_retries, config.retry_delay, svc)} :
        \E l \in {[run[r] EXCEPT !.final_safety_content = run[r].final_response,
                                !.final_safety = final_safety,
                                !.guard2_time = lat,
                                !.calls.guard = @ + 1,
                                !.stage_time = @ + lat]} :
        LET sid == run[r].sid
        IN  IF SafetyBlocks(final_safety)
            THEN FinishTracked(r, l,
                    CreateFailedResult(sid, l.customer_input,
                        "Final safety check failed", final_safety.issues),
                    CompletePipelineStep(
                        CompletePipelineStep(pipeline_progress, sid,
                            "final_safety_failed", "completed", By(r)),
                        sid, "terminated", "failed", By(r)))
            ELSE /\ pipeline_progress' =
                        TrackPipelineStep(
                            CompletePipelineStep(pipeline_progress, sid,
                                "final_safety_passed", "completed", By(r)),
                            sid, "tone_validation", "validating", By(r))
                 /\ run' = [run EXCEPT ![r] = [l EXCEPT !.pc = "tone_validation"]]
                 /\ UNCHANGED <<results_history, demo_results,
                                current_scenario_result>>
    /\ UNCHANGED <<review_queue, result_queue>>
    /\ TrackedFrame

\* pipeline_demo_vercel.py 231-242 / 256-284: the tone agent returns
ToneReturns(r, e) ==
    /\ run[r].pc = "tone_validation"
    /\ run[r].kind = "tracked"
    /\ \E svc \in e.tone, lat \in e.lat :
        \E tone_result \in {ValidateTone(config.max_retries, config.retry_delay, svc)} :
        \E l \in {[run[r] EXCEPT !.tone_content = run[r].final_response,
                                !.tone_result = tone_result,
                                !.tone_time = lat,
                                !.rewrite_time = 0,
                                !.original_tone_issues = <<>>,
                                !.calls.tone = @ + 1,
                                !.stage_time = @ + lat]} :
        LET sid == run[r].sid
        IN  IF ToneNeedsRewrite(tone_result)
            THEN /\ pipeline_progress' =
                        TrackPipelineStep(
                            CompletePipelineStep(pipeline_progress, sid,
                                "tone_failed", "completed", By(r)),
                            sid, "content_rewrite", "rewriting", By(r))
                 /\ run' = [run EXCEPT ![r] =
                        [l EXCEPT !.original_tone_issues = tone_result.issues,
                                  !.pc = "content_rewrite"]]
                 /\ UNCHANGED <<results_history, demo_results,
                                current_scenario_result>>
            ELSE FinishTracked(r, l, SuccessResult(l),
                    CompletePipeline(
                        CompletePipelineStep(pipeline_progress, sid,
                            "tone_passed", "completed", By(r)),
                        sid))
    /\ UNCHANGED <<review_queue, result_queue>>
    /\ TrackedFrame

\* pipeline_demo_vercel.py 242-247: the rewrite agent returns
RewriteReturns(r, e) ==
    /\ run[r].pc = "content_rewrite"
    /\ run[r].kind = "tracked"
    /\ \E svc \in e.rewrite, lat \in e.lat :
        run' = [run EXCEPT
                  ![r].final_response =
                      RewriteProfessional(run[r].final_response,
                          config.max_retries, config.retry_delay, svc),
                  ![r].rewrite_time = lat,
                  ![r].calls.rewrite = @ + 1,
                  ![r].stage_time = @ + lat,
                  ![r].pc = "tone_recheck"]
    /\ UNCHANGED <<results_history, demo_results, current_scenario_result,
                   pipeline_progress, review_queue, result_queue>>
    /\ TrackedFrame

\* pipeline_demo_vercel.py 247-284: the tone recheck returns
ToneRecheckReturns(r, e) ==
    /\ run[r].pc = "tone_recheck"
    /\ run[r].kind = "tracked"
    /\ \E svc \in e.tone, lat \in e.lat :
        \E final_tone_result \in {ValidateTone(config.max_retries, config.retry_delay, svc)} :
        \E l \in {[run[r] EXCEPT !.final_tone_result = final_tone_result,
                                !.rewrite_time = @ + lat,
                                !.calls.tone = @ + 1,
                                !.stage_time = @ + lat]} :
        LET sid == run[r].sid
        IN  FinishTracked(r, l, SuccessResult(l),
                CompletePipeline(
                    CompletePipelineStep(pipeline_progress, sid,
                        IF final_tone_result.passes THEN "rewritten"
                        ELSE "rewritten_issues_persist",
                        "completed", By(r)),
                    sid))
    /\ UNCHANGED <<review_queue, result_queue>>
    /\ TrackedFrame

\* The thread a new run gets: the first unused one of R.
IsFreeSlot(R, r) ==
    /\ r \in R
    /\ run[r].pc = "idle"
    /\ \A q \in R : run[q].pc = "idle" => r <= q

(***************************************************************************)
(* The untracked run: process_single_scenario, called directly.            *)
(***************************************************************************)
\* pipeline_demo_vercel.py 40-56: entry, up to the await of check_safety
ProcessSingleScenario(R) ==
    /\ \E r \in R, customer_input \in 1..NumScenarios :
        /\ IsFreeSlot(R, r)
        /\ run' = [run EXCEPT ![r] =
              [IdleRun EXCEPT !.pc = "safety_check", !.kind = "untracked",
                              !.sid = UntrackedId, !.gen = resets,
                              !.customer_input = customer_input]]
    /\ UNCHANGED results_history
    /\ UntrackedFrame

\* pipeline_demo_vercel.py 56-69
USafetyCheckReturns(r, e) ==
    /\ run[r].pc = "safety_check"
    /\ run[r].kind = "untracked"
    /\ \E svc \in e.guard, lat \in e.lat :
        \E safety_result \in {CheckSafety(config.max_retries, config.retry_delay, svc)} :
        \E l \in {[run[r] EXCEPT !.safety_result = safety_result,
                                !.guard1_time = lat,
                                !.calls.guard = @ + 1,
                                !.stage_time = @ + lat]} :
            IF SafetyBlocks(safety_result)
            THEN FinishUntracked(r, l,
                    CreateFailedResult(l.sid, l.customer_input,
                        "Initial safety check failed", safety_result.issues))
            ELSE /\ run' = [run EXCEPT ![r] = [l EXCEPT !.pc = "response_generation"]]
                 /\ UNCHANGED results_history
    /\ UntrackedFrame

\* pipeline_demo_vercel.py 67-80: no human review in this variant
UResponseReturns(r, e) ==
    /\ run[r].pc = "response_generation"
    /\ run[r].kind = "untracked"
    /\ \E svc \in e.response, lat \in e.lat :
        LET ai_response == GenerateResponse(config.max_retries, config.retry_delay, svc)
        IN  run' = [run EXCEPT ![r].ai_response = ai_response,
                               ![r].response_time = lat,
                               ![r].human_time = 0,
                               ![r].final_response = ai_response,
                               ![r].calls.response = @ + 1,
                               ![r].stage_time = @ + lat,
                               ![r].pc = "final_safety"]
    /\ UNCHANGED results_history
    /\ UntrackedFrame

\* pipeline_demo_vercel.py 80-92
UFinalSafetyReturns(r, e) ==
    /\ run[r].pc = "final_safety"
    /\ run[r].kind = "untracked"
    /\ \E svc \in e.guard, lat \in e.lat :
        \E final_safety \in {CheckSafety(config.max_retries, config.retry_delay, svc)} :
        \E l \in {[run[r] EXCEPT !.final_safety = final_safety,
                                !.guard2_time = lat,
                                !.calls.guard = @ + 1,
                                !.stage_time = @ + lat]} :
            IF SafetyBlocks(final_safety)
            THEN FinishUntracked(r, l,
                    CreateFailedResult(l.sid, l.customer_input,
                        "Final safety check failed", final_safety.issues))
            ELSE /\ run' = [run EXCEPT ![r] = [l EXCEPT !.pc = "tone_validation"]]
                 /\ UNCHANGED results_history
    /\ UntrackedFrame

\* pipeline_demo_vercel.py 92-101 / 112-135
UToneReturns(r, e) ==
    /\ run[r].pc = "tone_validation"
    /\ run[r].kind = "untracked"
    /\ \E svc \in e.tone, lat \in e.lat :
        \E tone_result \in {ValidateTone(config.max_retries, config.retry_delay, svc)} :
        \E l \in {[run[r] EXCEPT !.tone_result = tone_result,
                                !.tone_time = lat,
                                !.rewrite_time = 0,
                                !.original_tone_issues = <<>>,
                                !.calls.tone = @ + 1,
                                !.stage_time = @ + lat]} :
            IF ToneNeedsRewrite(tone_result)
            THEN /\ run' = [run EXCEPT ![r] =
                        [l EXCEPT !.original_tone_issues = tone_result.issues,
                                  !.pc = "content_rewrite"]]
                 /\ UNCHANGED results_history
            ELSE FinishUntracked(r, l, SuccessResult(l))
    /\ UntrackedFrame

\* pipeline_demo_vercel.py 101-106
URewriteReturns(r, e) ==
    /\ run[r].pc = "content_rewrite"
    /\ run[r].kind = "untracked"
    /\ \E svc \in e.rewrite, lat \in e.lat :
        run' = [run EXCEPT
                  ![r].final_response =
                      RewriteProfessional(run[r].final_response,
                          config.max_retries, config.retry_delay, svc),
                  ![r].rewrite_time = lat,
                  ![r].calls.rewrite = @ + 1,
                  ![r].stage_time = @ + lat,
                  ![r].pc = "tone_recheck"]
    /\ UNCHANGED results_history
    /\ UntrackedFrame

\* pipeline_demo_vercel.py 106-135
UToneRecheckReturns(r, e) ==
    /\ run[r].pc = "tone_recheck"
    /\ run[r].kind = "untracked"
    /\ \E svc \in e.tone, lat \in e.lat :
        \E final_tone_result \in {ValidateTone(config.max_retries, config.retry_delay, svc)} :
        \E l \in {[run[r] EXCEPT !.final_tone_result = final_tone_result,
                                !.rewrite_time = @ + lat,
                                !.calls.tone = @ + 1,
                                !.stage_time = @ + lat]} :
            FinishUntracked(r, l, SuccessResult(l))
    /\ UntrackedFrame

(***************************************************************************)
(* The handlers of the interactive session (human_loop.py).                *)
(***************************************************************************)
ClearedProgress == [id \in ScenarioIds |-> NoProgress]

\* /api/start_interactive_demo
start_interactive_demo ==
    /\ demo_state' = "running"
    /\ current_scenario_index' = 0
    /\ demo_results' = <<>>
    /\ pipeline_progress' = ClearedProgress
    /\ UNCHANGED <<locking, config, call, run, waiter, submitter, resetting, advancing, review_queue, result_queue,
                   active_reviews, next_review_id, current_scenario_result,
                   current_scenario_id, results_history, resets, after_reset>>

\* /api/process_current_scenario: the entry is created and the background
\* thread is started
process_current_scenario(R) ==
    /\ ~(demo_state # "running" \/ current_scenario_index >= NumScenarios)
    /\ \E r \in R :
        /\ IsFreeSlot(R, r)
        /\ LET scenario == demo_scenarios[current_scenario_index + 1]
               scenario_id == current_scenario_index + 1
           IN  /\ current_scenario_id' = scenario_id
               /\ pipeline_progress' =
                    [pipeline_progress EXCEPT
                        ![scenario_id] = NewProgress(scenario, resets)]
               /\ run' = [run EXCEPT ![r] =
                    [IdleRun EXCEPT !.pc = "started", !.kind = "tracked",
                                    !.sid = scenario_id, !.gen = resets,
                                    !.customer_input = scenario]]
    /\ after_reset' = FALSE
    /\ UNCHANGED <<locking, config, call, waiter, submitter, resetting, advancing, review_queue, result_queue,
                   active_reviews, next_review_id, demo_state,
                   current_scenario_index, demo_results,
                   current_scenario_result, results_history, resets>>

\* /api/next_scenario
next_scenario ==
    /\ demo_state = "running"
    /\ current_scenario_index' = current_scenario_index + 1
    /\ current_scenario_id' = NoId
    /\ current_scenario_result' = NoResult
    /\ demo_state' = IF current_scenario_index + 1 >= NumScenarios
                     THEN "completed" ELSE demo_state
    /\ UNCHANGED <<locking, config, call, run, waiter, submitter, resetting, advancing, review_queue, result_queue,
                   active_reviews, next_review_id, pipeline_progress,
                   demo_results, results_history, resets, after_reset>>

\* /api/next_scenario as the Flask threads run it.  The calls have no
\* locals, so the ones between the two steps are counted.
\* human_loop.py 281-282: the state test
next_scenario_check ==
    /\ demo_state = "running"
    /\ advancing < MaxAdvancers
    /\ advancing' = advancing + 1
    /\ UNCHANGED <<locking, config, call, run, waiter, submitter, resetting, review_queue,
                   result_queue, active_reviews, next_review_id,
                   pipeline_progress, demo_state, current_scenario_index,
                   demo_results, current_scenario_result, current_scenario_id,
                   results_history, resets, after_reset>>

\* human_loop.py 284-296: the index is advanced and compared with the
\* number of scenarios
next_scenario_advance ==
    /\ advancing > 0
    /\ advancing' = advancing - 1
    /\ current_scenario_index' = current_scenario_index + 1
    /\ current_scenario_id' = NoId
    /\ current_scenario_result' = NoResult
    /\ demo_state' = IF current_scenario_index + 1 >= NumScenarios
                     THEN "completed" ELSE demo_state
    /\ UNCHANGED <<locking, config, call, run, waiter, submitter, resetting, review_queue,
                   result_queue, active_reviews, next_review_id,
                   pipeline_progress, demo_results, results_history, resets,
                   after_reset>>

\* Variant of Drained: the queue is left as it is.
NotDrained(queue) == queue

\* while not queue.empty(): queue.get_nowait()
Drained(queue) == <<>>

\* /api/reset_demo
reset_demo ==
    /\ resets < MaxResets
    /\ demo_state' = "idle"
    /\ current_scenario_index' = 0
    /\ demo_results' = <<>>
    /\ current_scenario_result' = NoResult
    /\ current_scenario_id' = NoId
    /\ pipeline_progress' = ClearedProgress
    /\ active_reviews' = {}
    /\ review_queue' = Drained(review_queue)
    /\ result_queue' = Drained(result_queue)
    /\ resets' = resets + 1
    /\ after_reset' = TRUE
    /\ UNCHANGED <<locking, config, call, run, waiter, submitter, resetting, advancing, next_review_id, results_history>>

\* /api/reset_demo as the Flask threads run it, in its three regions.
\* human_loop.py 341-345: the session fields, assigned under no lock
reset_demo_session ==
    /\ resetting = "idle"
    /\ resets < MaxResets
    /\ demo_state' = "idle"
    /\ current_scenario_index' = 0
    /\ demo_results' = <<>>
    /\ current_scenario_result' = NoResult
    /\ current_scenario_id' = NoId
    /\ resets' = resets + 1
    /\ resetting' = "session_cleared"
    /\ UNCHANGED <<locking, config, call, run, waiter, submitter, advancing, review_queue,
                   result_queue, active_reviews, next_review_id,
                   pipeline_progress, results_history, after_reset>>

\* human_loop.py 347-349: the progress map, under progress_lock
reset_demo_progress ==
    /\ resetting = "session_cleared"
    /\ pipeline_progress' = ClearedProgress
    /\ after_reset' = TRUE
    /\ resetting' = "progress_cleared"
    /\ UNCHANGED <<locking, config, call, run, waiter, submitter, advancing, review_queue,
                   result_queue, active_reviews, next_review_id, demo_state,
                   current_scenario_index, demo_results,
                   current_scenario_result, current_scenario_id,
                   results_history, resets>>

\* human_loop.py 351-368: the review state, under review_lock
reset_demo_reviews ==
    /\ resetting = "progress_cleared"
    /\ active_reviews' = {}
    /\ review_queue' = Drained(review_queue)
    /\ result_queue' = Drained(result_queue)
    /\ resetting' = "idle"
    /\ UNCHANGED <<locking, config, call, run, waiter, submitter, advancing, next_review_id,
                   pipeline_progress, demo_state, current_scenario_index,
                   demo_results, current_scenario_result, current_scenario_id,
                   results_history, resets, after_reset>>

\* /api/get_pipeline_progress: the answer in the current state
get_pipeline_progress ==
    IF current_scenario_id = NoId THEN [status |-> "no_progress"]
    ELSE IF ~pipeline_progress[current_scenario_id].present
    THEN [status |-> "no_progress"]
    ELSE [status |-> "success", scenario_id |-> current_scenario_id,
          current_step |-> pipeline_progress[current_scenario_id].current_step,
          steps |-> pipeline_progress[current_scenario_id].steps,
          completed |-> pipeline_progress[current_scenario_id].ended]

(***************************************************************************)
(* The reviewer's handlers.                                                *)
(***************************************************************************)
\* Variant of NextRequest: the request queued last is served.
NewestRequest(queue) == queue[Len(queue)]

\* what review_queue.get_nowait() returns from a queue that is not empty
NextRequest(queue) == Head(queue)

\* the JSON answer of /api/get_review
GetReviewAnswer(queue, review_id) ==
    IF queue = <<>> THEN [status |-> "no_reviews"]
    ELSE [status |-> "success", review_id |-> review_id,
          customer_input |-> NextRequest(queue).customer_input,
          ai_response |-> NextRequest(queue).ai_response]

\* /api/get_review; with an empty queue get_nowait raises queue.Empty and
\* the handler answers without touching anything
get_review ==
    /\ IF review_queue = <<>>
       THEN UNCHANGED <<review_queue, next_review_id, active_reviews>>
       ELSE LET review_data == NextRequest(review_queue)
                review_id == next_review_id + 1
            IN  /\ review_queue' = Tail(review_queue)
                /\ next_review_id' = review_id
                /\ active_reviews' = active_reviews \cup
                     {[review_id |-> review_id, data |-> review_data]}
    /\ UNCHANGED <<locking, config, call, run, waiter, submitter, resetting, advancing, result_queue, pipeline_progress,
                   demo_state, current_scenario_index, demo_results,
                   current_scenario_result, current_scenario_id,
                   results_history, resets, after_reset>>

Edits == {<<>>, <<"edited_reply">>, NoneText}

ReviewSeconds == {1}

\* /api/submit_review with a review id that is in active_reviews
submit_review ==
    /\ \E entry \in active_reviews, edited \in Edits, seconds \in ReviewSeconds :
        /\ active_reviews' = active_reviews \ {entry}
        /\ result_queue' =
              Append(result_queue, ReviewOutcome(entry.data, edited, seconds))
    /\ UNCHANGED <<locking, config, call, run, waiter, submitter, resetting, advancing, review_queue, next_review_id,
                   pipeline_progress, demo_state, current_scenario_index,
                   demo_results, current_scenario_result, current_scenario_id,
                   results_history, resets, after_reset>>

(***************************************************************************)
(* /api/submit_review as the Flask threads run it: the membership test of  *)
(* line 157 is made outside review_lock, the pop of lines 160-161 inside.  *)
(* checked is a history field: the call passed the membership test.        *)
(***************************************************************************)
IdleSubmitter ==
    [pc |-> "idle", review_id |-> 0, checked |-> FALSE, answer |-> "none"]

\* the review ids a client may send: none (0), ids handed out, and one that
\* was never handed out
SubmittedIds == 0..(next_review_id + 1)

\* review_id in self.active_reviews
IsActive(active, review_id) == \E entry \in active : entry.review_id = review_id

\* Variant of PopEntry: the entry is read and left in place.
PopEntryKept(active, entry) == active

\* self.active_reviews.pop(review_id)
PopEntry(active, entry) == active \ {entry}

\* human_loop.py 153-158: the body is read and the review id tested
submit_review_check(s) ==
    /\ submitter[s].pc = "idle"
    /\ \E review_id \in SubmittedIds :
          IF review_id = 0 \/ ~IsActive(active_reviews, review_id)
          THEN submitter' = [submitter EXCEPT
                   ![s] = [pc |-> "returned", review_id |-> review_id,
                           checked |-> FALSE, answer |-> "error"]]
          ELSE submitter' = [submitter EXCEPT
                   ![s] = [pc |-> "checked", review_id |-> review_id,
                           checked |-> TRUE, answer |-> "none"]]
    /\ UNCHANGED <<locking, config, call, run, waiter, resetting, advancing, review_queue, result_queue,
                   active_reviews, next_review_id, pipeline_progress,
                   demo_state, current_scenario_index, demo_results,
                   current_scenario_result, current_scenario_id,
                   results_history, resets, after_reset>>

\* human_loop.py 160-183: pop under review_lock, build the outcome and put
\* it on result_queue; the KeyError of a pop that finds nothing is caught
\* by the except clause and answered with an error
submit_review_pop(s) ==
    /\ submitter[s].pc = "checked"
    /\ IF IsActive(active_reviews, submitter[s].review_id)
       THEN \E entry \in {x \in active_reviews : x.review_id = submitter[s].review_id},
               edited \in Edits, seconds \in ReviewSeconds :
               /\ active_reviews' = PopEntry(active_reviews, entry)
               /\ result_queue' =
                     Append(result_queue, ReviewOutcome(entry.data, edited, seconds))
               /\ submitter' = [submitter EXCEPT ![s].pc = "returned",
                                                 ![s].answer = "success"]
       ELSE /\ submitter' = [submitter EXCEPT ![s].pc = "returned",
                                              ![s].answer = "error"]
            /\ UNCHANGED <<active_reviews, result_queue>>
    /\ UNCHANGED <<locking, config, call, run, waiter, resetting, advancing, review_queue, next_review_id,
                   pipeline_progress, demo_state, current_scenario_index,
                   demo_results, current_scenario_result, current_scenario_id,
                   results_history, resets, after_reset>>

(***************************************************************************)
(* Direct callers of HumanLoopManager.request_review.                      *)
(***************************************************************************)
IdleWaiter ==
    [pc |-> "idle", customer_input |-> 0, ai_response |-> <<>>, timeout |-> 0,
     elapsed |-> 0, result |-> NoReview]

WaiterFrame ==
    UNCHANGED <<locking, config, call, run, submitter, resetting, advancing, active_reviews, next_review_id,
                pipeline_progress, demo_state, current_scenario_index,
                demo_results, current_scenario_result, current_scenario_id,
                results_history, resets, after_reset>>

\* human_loop.py 500-518: the request is queued and the wait starts
request_review(w) ==
    /\ waiter[w].pc = "idle"
    /\ \E customer_input \in {((w - 1) % NumScenarios) + 1},
          timeout \in {0, ReviewTimeout} :
        /\ waiter' = [waiter EXCEPT ![w] =
              [IdleWaiter EXCEPT !.pc = "waiting",
                                 !.customer_input = customer_input,
                                 !.ai_response = <<"reply">>,
                                 !.timeout = timeout]]
        /\ review_queue' =
              Append(review_queue,
                     ReviewData(customer_input, <<"reply">>, <<"waiter", w>>))
    /\ UNCHANGED result_queue
    /\ WaiterFrame

\* human_loop.py 519-535: one round of the polling loop of request_review
request_review_poll(w) ==
    /\ waiter[w].pc = "waiting"
    /\ LET l == waiter[w]
       IN  IF WaitOver(l.elapsed, l.timeout)
           THEN /\ waiter' = [waiter EXCEPT
                      ![w].pc = "returned",
                      ![w].result = TimeoutResult(l.customer_input,
                                        l.ai_response, l.timeout, <<"waiter", w>>)]
                /\ result_queue' = result_queue
           ELSE IF result_queue # <<>>
           THEN /\ waiter' = [waiter EXCEPT ![w].pc = "returned",
                                            ![w].result = Head(result_queue)]
                /\ result_queue' = Tail(result_queue)
           ELSE /\ waiter' = [waiter EXCEPT ![w].elapsed = AfterEmptyPoll(@)]
                /\ result_queue' = result_queue
    /\ UNCHANGED review_queue
    /\ WaiterFrame

(***************************************************************************)
(* Initial states.                                                         *)
(***************************************************************************)
DefaultMaxRetries == 3
DefaultRetryDelay == 1

\* HumanLoopManager.__init__ and GroqCustomerServiceDemo.__init__
QuietSystem ==
    /\ run = [r \in AllRunIds |-> IdleRun]
    /\ waiter = [w \in WaiterIds |-> IdleWaiter]
    /\ submitter = [s \in SubmitterIds |-> IdleSubmitter]
    /\ resetting = "idle"
    /\ advancing = 0
    /\ progress_lock = Unlocked
    /\ review_lock = Unlocked
    /\ thread = [t \in ThreadIds |-> IdleThread]
    /\ review_queue = <<>>
    /\ result_queue = <<>>
    /\ active_reviews = {}
    /\ next_review_id = 0
    /\ pipeline_progress = ClearedProgress
    /\ demo_state = "idle"
    /\ current_scenario_index = 0
    /\ demo_results = <<>>
    /\ current_scenario_result = NoResult
    /\ current_scenario_id = NoId
    /\ results_history = <<>>
    /\ resets = 0
    /\ after_reset = FALSE

ClientFrame ==
    UNCHANGED <<locking, config, run, waiter, submitter, resetting, advancing, review_queue, result_queue, active_reviews,
                next_review_id, pipeline_progress, demo_state,
                current_scenario_index, demo_results, current_scenario_result,
                current_scenario_id, results_history, resets, after_reset>>

(***************************************************************************)
(* The client specification: one agent, configured with max_retries and    *)
(* retry_delay, makes one call against a service whose behaviour on the    *)
(* successive attempts is svc.                                             *)
(***************************************************************************)
Outcomes ==
    {Raise, NoChoices, Content(<<>>), Content(<<"_", "safe", "_">>),
     Content(<<"unsafe", "o3">>), Content(<<"fail", "casual_language">>),
     Content(<<"unsafe">>), Content(<<"harmful">>), Content(<<"fail">>)}

ServiceRuns == [1..MaxN -> Outcomes]

AllRaise == [i \in 1..MaxN |-> Raise]

NoRequest ==
    [kind |-> "idle", value |-> <<>>, calls |-> 0, waits |-> <<>>,
     cause |-> NoCause]

IdleCall ==
    [op |-> "idle", svc |-> AllRaise, req |-> NoRequest, res |-> NoModeration,
     content |-> <<>>, text |-> <<>>]

ClientInit ==
    /\ \E n \in (0 - 1)..MaxN, d \in 0..MaxDelay :
          config = [max_retries |-> n, retry_delay |-> d,
                    human_review_timeout |-> 0]
    /\ call = IdleCall
    /\ QuietSystem

\* BaseAgent._make_groq_request
ClientRequest ==
    /\ call.op = "idle"
    /\ \E svc \in ServiceRuns :
        call' = [call EXCEPT !.op = "_make_groq_request", !.svc = svc,
                 !.req = MakeGroqRequest(config.max_retries, config.retry_delay, svc)]
    /\ ClientFrame

\* GuardAgent.check_safety
ClientCheckSafety ==
    /\ call.op = "idle"
    /\ \E svc \in ServiceRuns :
        call' = [call EXCEPT !.op = "check_safety", !.svc = svc,
                 !.req = MakeGroqRequest(config.max_retries, config.retry_delay, svc),
                 !.res = CheckSafety(config.max_retries, config.retry_delay, svc)]
    /\ ClientFrame

\* ToneAgent.validate_tone
ClientValidateTone ==
    /\ call.op = "idle"
    /\ \E svc \in ServiceRuns :
        call' = [call EXCEPT !.op = "validate_tone", !.svc = svc,
                 !.req = MakeGroqRequest(config.max_retries, config.retry_delay, svc),
                 !.res = ValidateTone(config.max_retries, config.retry_delay, svc)]
    /\ ClientFrame

ClientNext == ClientRequest \/ ClientCheckSafety \/ ClientValidateTone

SpecClient == ClientInit /\ [][ClientNext]_vars

(***************************************************************************)
(* The text specification: the response agent or the rewrite agent makes   *)
(* one call.  The rewrite agent is given a text stored with or without     *)
(* surrounding blanks.                                                     *)
(***************************************************************************)
TextOutcomes ==
    {Raise, NoChoices, Content(<<>>), Content(<<"Response:", "_", "reply">>),
     Content(<<"Customer service response:", "ok">>), Content(<<"ok">>),
     Content(<<"_", "reply", "_">>), Content(<<"rewritten_reply">>)}

Originals == {<<"reply">>, <<"_", "reply", "_">>}

\* ResponseAgent.generate_response
ClientGenerateResponse ==
    /\ call.op = "idle"
    /\ \E svc \in [1..MaxN -> TextOutcomes] :
        call' = [call EXCEPT !.op = "generate_response", !.svc = svc,
                 !.req = MakeGroqRequest(config.max_retries, config.retry_delay, svc),
                 !.text = GenerateResponse(config.max_retries, config.retry_delay, svc)]
    /\ ClientFrame

\* RewriteAgent.rewrite_professional
ClientRewriteProfessional ==
    /\ call.op = "idle"
    /\ \E svc \in [1..MaxN -> TextOutcomes], content \in Originals :
        call' = [call EXCEPT !.op = "rewrite_professional", !.svc = svc,
                 !.content = content,
                 !.req = MakeGroqRequest(config.max_retries, config.retry_delay, svc),
                 !.text = RewriteProfessional(content, config.max_retries,
                                              config.retry_delay, svc)]
    /\ ClientFrame

TextNext == ClientGenerateResponse \/ ClientRewriteProfessional

SpecText == ClientInit /\ [][TextNext]_vars

(***************************************************************************)
(* Claims on the client.                                                   *)
(***************************************************************************)
\* The service fails on attempts 0..k-1 and succeeds on attempt k.
FailsThenSucceeds(svc, k) ==
    /\ \A i \in 1..k : AttemptFails(svc[i])
    /\ ~AttemptFails(svc[k + 1])

EveryAttemptRaises(svc) == \A i \in 1..MaxN : svc[i].t = "raise"

EveryAttemptFails(svc) == \A i \in 1..MaxN : AttemptFails(svc[i])

\* C3: when every call of the model service raises, check_safety returns
\* passes = true with issues [safety_check_error] and validate_tone returns
\* passes = true with issues [tone_validation_error]; neither raises.
C3_FailOpen ==
    EveryAttemptRaises(call.svc) =>
        /\ call.op = "check_safety" =>
              call.res = [passes |-> TRUE, issues |-> <<"safety_check_error">>,
                          raised |-> FALSE]
        /\ call.op = "validate_tone" =>
              call.res = [passes |-> TRUE, issues |-> <<"tone_validation_error">>,
                          raised |-> FALSE]

C3_Witness ==
    /\ call.op = "validate_tone"
    /\ config.max_retries = MaxN
    /\ EveryAttemptRaises(call.svc)
    /\ call.req.kind = "raise"
    /\ call.res.passes

\* C4: with max_retries = N >= 1 and a service that fails k < N times and
\* then succeeds, the request returns the success value after exactly k + 1
\* service calls and k waits, the i-th wait being retry_delay * 2^i; the
\* waits are non-decreasing.
C4_RetryBackoff ==
    \A k \in 0..(MaxN - 1) :
        (/\ call.op = "_make_groq_request"
         /\ config.max_retries >= 1
         /\ k < config.max_retries
         /\ FailsThenSucceeds(call.svc, k))
        => /\ call.req.kind = "return"
           /\ call.req.value = Strip(call.svc[k + 1].c)
           /\ call.req.calls = k + 1
           /\ Len(call.req.waits) = k
           /\ \A i \in 0..(k - 1) :
                 call.req.waits[i + 1] = config.retry_delay * Pow2(i)
           /\ \A i \in 1..(k - 1) : call.req.waits[i] <= call.req.waits[i + 1]

C4_Witness ==
    /\ call.op = "_make_groq_request"
    /\ config.max_retries = 3
    /\ config.retry_delay = 1
    /\ FailsThenSucceeds(call.svc, 2)
    /\ call.req.kind = "return"
    /\ call.req.calls = 3
    /\ call.req.waits = <<1, 2>>

\* C5: with max_retries = N >= 1 and a service that fails on every attempt,
\* exactly N service calls and N - 1 waits are made and the request raises
\* an error that carries the cause of the last (N-th) failed attempt.
C5_Exhausted ==
    (/\ call.op = "_make_groq_request"
     /\ config.max_retries >= 1
     /\ EveryAttemptFails(call.svc))
    => /\ call.req.kind = "raise"
       /\ call.req.calls = config.max_retries
       /\ Len(call.req.waits) = config.max_retries - 1
       /\ call.req.cause = config.max_retries - 1

C5_Witness ==
    /\ call.op = "_make_groq_request"
    /\ config.max_retries = 3
    /\ EveryAttemptFails(call.svc)
    /\ call.req.kind = "raise"
    /\ call.req.calls = 3
    /\ Len(call.req.waits) = 2

(***************************************************************************)
(* Environments of a pipeline run: what the model service does on the      *)
(* attempts of each stage call, and the latencies measured.                *)
(***************************************************************************)
GuardOutcomes == {Raise, Content(<<"safe">>), Content(<<"unsafe", "o3">>)}
ResponseOutcomes == {Raise, Content(<<"Response:", "_", "reply">>), Content(<<"ok">>)}
ToneOutcomes == {Raise, Content(<<"pass">>), Content(<<"fail", "casual_language">>)}
RewriteOutcomes == {Raise, Content(<<"rewritten_reply">>), Content(<<"ok">>)}

\* The service fails some attempts and, once it answers, keeps answering
\* the same.
RunsOver(outcomes) ==
    {s \in [1..DefaultMaxRetries -> outcomes] :
        \A i \in 1..DefaultMaxRetries :
            s[i] # Raise => \A j \in i..DefaultMaxRetries : s[j] = s[i]}

\* any behaviour of the service
FullEnv ==
    [guard |-> RunsOver(GuardOutcomes), response |-> RunsOver(ResponseOutcomes),
     tone |-> RunsOver(ToneOutcomes), rewrite |-> RunsOver(RewriteOutcomes),
     lat |-> {1}]

\* a service that answers at the first attempt and finds nothing to object to
PromptEnv ==
    [guard |-> {s \in RunsOver(GuardOutcomes) :
                    \A i \in 1..DefaultMaxRetries : s[i] = Content(<<"safe">>)},
     response |-> {s \in RunsOver(ResponseOutcomes) :
                    \A i \in 1..DefaultMaxRetries : s[i] = Content(<<"Response:", "_", "reply">>)},
     tone |-> {s \in RunsOver(ToneOutcomes) :
                    \A i \in 1..DefaultMaxRetries : s[i] = Content(<<"pass">>)},
     rewrite |-> {s \in RunsOver(RewriteOutcomes) :
                    \A i \in 1..DefaultMaxRetries : s[i] = Content(<<"rewritten_reply">>)},
     lat |-> {1}]

TrackedStep(r, e) ==
    \/ BeginTracked(r)
    \/ SafetyCheckReturns(r, e)
    \/ ResponseReturns(r, e)
    \/ ReviewPoll(r)
    \/ FinalSafetyReturns(r, e)
    \/ ToneReturns(r, e)
    \/ RewriteReturns(r, e)
    \/ ToneRecheckReturns(r, e)

UntrackedStep(r, e) ==
    \/ USafetyCheckReturns(r, e)
    \/ UResponseReturns(r, e)
    \/ UFinalSafetyReturns(r, e)
    \/ UToneReturns(r, e)
    \/ URewriteReturns(r, e)
    \/ UToneRecheckReturns(r, e)

(***************************************************************************)
(* The pipeline specification: one run, tracked (started from the session) *)
(* or untracked (called directly), against any service and any reviewer.   *)
(***************************************************************************)
PipelineInit ==
    /\ \E t \in {0, ReviewTimeout} :
          config = [max_retries |-> DefaultMaxRetries,
                    retry_delay |-> DefaultRetryDelay,
                    human_review_timeout |-> t]
    /\ call = IdleCall
    /\ QuietSystem

PipelineNext ==
    \/ start_interactive_demo
    \/ process_current_scenario({1})
    \/ ProcessSingleScenario({1})
    \/ TrackedStep(1, FullEnv)
    \/ UntrackedStep(1, FullEnv)
    \/ get_review
    \/ submit_review

SpecPipeline == PipelineInit /\ [][PipelineNext]_vars

\* The run is scheduled: its thread keeps running until it returns.
RunStep == TrackedStep(1, FullEnv) \/ UntrackedStep(1, FullEnv)

SpecPipelineFair == SpecPipeline /\ WF_vars(RunStep)

(***************************************************************************)
(* The timed specification: one run against a service that answers every  *)
(* request at the first attempt, with latencies that differ from call to   *)
(* call.                                                                   *)
(***************************************************************************)
Latencies == {1, 2}

\* a service that answers at the first attempt, with a latency of lats
AnsweringEnv(lats) ==
    [guard |-> {s \in RunsOver(GuardOutcomes) : s[1] # Raise},
     response |-> {s \in RunsOver(ResponseOutcomes) :
                    s[1] = Content(<<"Response:", "_", "reply">>)},
     tone |-> {s \in RunsOver(ToneOutcomes) : s[1] # Raise},
     rewrite |-> {s \in RunsOver(RewriteOutcomes) :
                    s[1] = Content(<<"rewritten_reply">>)},
     lat |-> lats]

\* a tracked run in a thread of T and an untracked run in a thread of U
RunNext(T, U, e) ==
    \/ start_interactive_demo
    \/ process_current_scenario(T)
    \/ ProcessSingleScenario(U)
    \/ \E r \in T : TrackedStep(r, e)
    \/ \E r \in U : UntrackedStep(r, e)
    \/ get_review
    \/ submit_review

TimedNext == RunNext({1}, {1}, AnsweringEnv(Latencies))

SpecTimed == PipelineInit /\ [][TimedNext]_vars

(***************************************************************************)
(* The pair specification: a tracked run in thread 1 and an untracked run  *)
(* in thread 2, against the same kind of service.                          *)
(***************************************************************************)
PairNext == RunNext({1}, {2}, AnsweringEnv({1}))

SpecPair == PipelineInit /\ [][PairNext]_vars

(***************************************************************************)
(* The review specification: concurrent callers of request_review and the  *)
(* reviewer.                                                               *)
(***************************************************************************)
ReviewInit ==
    /\ config = [max_retries |-> DefaultMaxRetries,
                 retry_delay |-> DefaultRetryDelay,
                 human_review_timeout |-> ReviewTimeout]
    /\ call = IdleCall
    /\ QuietSystem

ReviewNext ==
    \/ \E w \in WaiterIds : request_review(w)
    \/ \E w \in WaiterIds : request_review_poll(w)
    \/ get_review
    \/ submit_review

SpecReview == ReviewInit /\ [][ReviewNext]_vars

(***************************************************************************)
(* The submission specification: two callers of request_review, a         *)
(* reviewer claiming requests and concurrent calls of /api/submit_review.  *)
(***************************************************************************)
SubmitNext ==
    \/ \E w \in {1, 2} : request_review(w)
    \/ \E w \in {1, 2} : request_review_poll(w)
    \/ get_review
    \/ \E s \in SubmitterIds : submit_review_check(s)
    \/ \E s \in SubmitterIds : submit_review_pop(s)

SpecSubmit == ReviewInit /\ [][SubmitNext]_vars

(***************************************************************************)
(* The session specification: the interactive session and its background   *)
(* runs, with human review disabled (human_review_timeout = 0), against a  *)
(* service that answers promptly.                                          *)
(***************************************************************************)
Init ==
    /\ \E t \in {0} :
          config = [max_retries |-> DefaultMaxRetries,
                    retry_delay |-> DefaultRetryDelay,
                    human_review_timeout |-> t]
    /\ call = IdleCall
    /\ QuietSystem

SessionNext(R) ==
    \/ start_interactive_demo
    \/ process_current_scenario(R)
    \/ next_scenario
    \/ reset_demo
    \/ \E r \in R : BeginTracked(r)
    \/ \E r \in R : SafetyCheckReturns(r, PromptEnv)
    \/ \E r \in R : ResponseReturns(r, PromptEnv)
    \/ \E r \in R : FinalSafetyReturns(r, PromptEnv)
    \/ \E r \in R : ToneReturns(r, PromptEnv)

Next == SessionNext(RunIds)

Spec == Init /\ [][Next]_vars

\* The reviewed session: the session with human review enabled and one
\* background run, which waits for the reviewer.
ReviewedInit ==
    /\ config = [max_retries |-> DefaultMaxRetries,
                 retry_delay |-> DefaultRetryDelay,
                 human_review_timeout |-> ReviewTimeout]
    /\ call = IdleCall
    /\ QuietSystem

ReviewedNext ==
    \/ SessionNext({1})
    \/ ReviewPoll(1)
    \/ get_review
    \/ submit_review

SpecReviewed == ReviewedInit /\ [][ReviewedNext]_vars

\* The reset race: the reviewed session with reset_demo run region by
\* region, the other handlers and the background run in between.
ResetRaceNext ==
    \/ start_interactive_demo
    \/ process_current_scenario({1})
    \/ next_scenario
    \/ reset_demo_session
    \/ reset_demo_progress
    \/ reset_demo_reviews
    \/ BeginTracked(1)
    \/ SafetyCheckReturns(1, PromptEnv)
    \/ ResponseReturns(1, PromptEnv)
    \/ ReviewPoll(1)
    \/ FinalSafetyReturns(1, PromptEnv)
    \/ ToneReturns(1, PromptEnv)
    \/ get_review
    \/ submit_review

SpecResetRace == ReviewedInit /\ [][ResetRaceNext]_vars

\* The advancing session: the session with /api/next_scenario run in its
\* two steps by concurrent clients.
AdvanceNext ==
    \/ start_interactive_demo
    \/ process_current_scenario(RunIds)
    \/ next_scenario_check
    \/ next_scenario_advance
    \/ reset_demo
    \/ \E r \in RunIds : BeginTracked(r)
    \/ \E r \in RunIds : SafetyCheckReturns(r, PromptEnv)
    \/ \E r \in RunIds : ResponseReturns(r, PromptEnv)
    \/ \E r \in RunIds : FinalSafetyReturns(r, PromptEnv)
    \/ \E r \in RunIds : ToneReturns(r, PromptEnv)

SpecAdvance == Init /\ [][AdvanceNext]_vars

\* The restart specification: the session with room for one more background
\* run, so that a run can be started after a reset while an earlier one is
\* still in flight.
RestartNext == SessionNext(AllRunIds)

SpecRestart == Init /\ [][RestartNext]_vars

(***************************************************************************)
(* Claims on the pipeline run.                                             *)
(***************************************************************************)
RunDone(r) == run[r].pc = "done"

\* C2: in the tracked and in the untracked run, when the first safety check
\* does not pass, the response agent, the review exchange, the second safety
\* check, the tone agent and the rewrite agent are invoked zero times.
C2_SafetyFailStops ==
    \A r \in AllRunIds :
        (run[r].calls.guard >= 1 /\ ~run[r].safety_result.passes)
        => /\ run[r].calls = [ZeroCalls EXCEPT !.guard = 1]
           /\ RunDone(r)

C2_WitnessTracked ==
    /\ run[1].kind = "tracked"
    /\ RunDone(1)
    /\ ~run[1].safety_result.passes
    /\ run[1].calls.guard = 1

C2_Witness ==
    /\ run[1].kind = "untracked"
    /\ RunDone(1)
    /\ ~run[1].safety_result.passes
    /\ run[1].calls.guard = 1

\* C7: every tracked run eventually terminates and returns a PipelineResult,
\* whatever the reviewer and the model service do.
C7_TrackedRunTerminates ==
    (run[1].kind = "tracked") ~> (RunDone(1) /\ run[1].result # NoResult)

C7_Witness ==
    /\ run[1].kind = "tracked"
    /\ RunDone(1)
    /\ run[1].calls.review = 1
    /\ run[1].human_result.review_notes = TimeoutNotes
    /\ run[1].result.success

\* C10: when the first tone validation fails, the PipelineResult has the
\* issue list of that first check as tone_issues and success = true, whether
\* the recheck passes or not; the rewrite agent ran once, the tone agent twice.
C10_ToneFailReported ==
    \A r \in AllRunIds :
        (RunDone(r) /\ run[r].calls.tone >= 1 /\ ~run[r].tone_result.passes)
        => /\ run[r].result.success
           /\ run[r].result.tone_issues = run[r].tone_result.issues
           /\ run[r].result.tone_issues # <<>>
           /\ run[r].calls.rewrite = 1
           /\ run[r].calls.tone = 2

C10_Witness ==
    /\ RunDone(1)
    /\ run[1].kind = "tracked"
    /\ run[1].tone_result = Moderation(FALSE, <<"casual_language">>)
    /\ ~run[1].final_tone_result.passes
    /\ run[1].result.success
    /\ run[1].result.tone_issues = <<"casual_language">>

C10_WitnessRecheckPasses ==
    /\ RunDone(1)
    /\ run[1].kind = "untracked"
    /\ ~run[1].tone_result.passes
    /\ run[1].final_tone_result = Moderation(TRUE, <<>>)
    /\ run[1].result.tone_issues = <<"casual_language">>

(***************************************************************************)
(* Claims on the review exchange.                                          *)
(***************************************************************************)
WaiterReturned(w) == waiter[w].pc = "returned"

\* C1: a caller that waits for the outcome of its own request only ever
\* receives an outcome that originates from that request.
C1_OwnOutcomeOnly ==
    \A w \in WaiterIds :
        WaiterReturned(w) => waiter[w].result.req = <<"waiter", w>>

\* Nothing was ever put on the result queue: every review handed out by
\* get_review is still in active_reviews.
NoOutcomeSubmitted == Cardinality(active_reviews) = next_review_id

\* C6: a request with timeout T for which no outcome is ever submitted
\* returns once T has elapsed, within one polling interval, with the AI
\* draft as edited_response, T * 1000 as human_time_ms and the timeout note.
C6_TimeoutFallback ==
    \A w \in WaiterIds :
        (WaiterReturned(w) /\ NoOutcomeSubmitted)
        => /\ waiter[w].elapsed >= waiter[w].timeout
           /\ waiter[w].elapsed < waiter[w].timeout + PollInterval
           /\ waiter[w].result.edited_response = waiter[w].ai_response
           /\ waiter[w].result.original_response = waiter[w].ai_response
           /\ waiter[w].result.human_time_ms = waiter[w].timeout * 1000
           /\ waiter[w].result.review_notes = TimeoutNotes

C6_Witness ==
    /\ WaiterReturned(1)
    /\ NoOutcomeSubmitted
    /\ next_review_id = 1
    /\ waiter[1].timeout = ReviewTimeout
    /\ waiter[1].elapsed = ReviewTimeout
    /\ waiter[1].result.human_time_ms = ReviewTimeout * 1000

(***************************************************************************)
(* Claims on the tracker and the session.                                  *)
(***************************************************************************)
\* C8: after reset_demo no scenario id has a progress entry and
\* get_pipeline_progress answers no_progress, also when a background run
\* started before the reset writes to the tracker afterwards.
C8_ResetStaysCleared ==
    after_reset =>
        /\ \A id \in ScenarioIds : ~pipeline_progress[id].present
        /\ get_pipeline_progress.status = "no_progress"

\* a run started before the reset has finished after it: its last segment
\* called complete_pipeline_step and complete_pipeline on the cleared map
C8_Witness ==
    /\ after_reset
    /\ RunDone(1)
    /\ run[1].gen < resets
    /\ demo_results = <<run[1].result>>

\* C9: every step in the progress of a run started after a reset was written
\* and completed by a run started after that reset.
C9_NoLateWriteIntoNewRun ==
    \A id \in ScenarioIds :
        \A i \in 1..Len(pipeline_progress[id].steps) :
            \A by \in pipeline_progress[id].steps[i].touched :
                by[2] = pipeline_progress[id].gen

(***************************************************************************)
(* Claims on the result of a run that stops at a safety check.             *)
(***************************************************************************)
\* the run ended at its first safety check
StoppedAtFirstCheck(r) ==
    RunDone(r) /\ run[r].calls.guard = 1 /\ ~run[r].safety_result.passes

\* the run ended at its second safety check
StoppedAtSecondCheck(r) ==
    RunDone(r) /\ run[r].calls.guard = 2 /\ ~run[r].final_safety.passes

\* C11: when the first safety check fails with issues I, the result has
\* success = false, safety_issues = I and a final_response that starts
\* with the failure prefix.
C11_FirstCheckFailResult ==
    \A r \in AllRunIds :
        StoppedAtFirstCheck(r)
        => /\ run[r].result.success = FALSE
           /\ run[r].result.safety_issues = run[r].safety_result.issues
           /\ run[r].result.safety_issues # <<>>
           /\ Head(run[r].result.final_response) = "Processing failed:"

C11_Witness ==
    /\ StoppedAtFirstCheck(1)
    /\ run[1].kind = "tracked"
    /\ run[1].result.safety_issues = <<"weapons">>
    /\ run[1].result.final_response =
          <<"Processing failed:", "Initial safety check failed">>

\* C12: when the first safety check fails, ai_time of the result is the
\* latency measured for that check.
C12_FirstCheckFailAiTime ==
    \A r \in AllRunIds :
        StoppedAtFirstCheck(r) => run[r].result.ai_time = run[r].guard1_time

\* C13: when the second safety check fails the tone and rewrite agents are
\* not invoked and the result has success = false with the issues of the
\* second check.
C13_SecondCheckFailStops ==
    \A r \in AllRunIds :
        StoppedAtSecondCheck(r)
        => /\ run[r].calls.tone = 0
           /\ run[r].calls.rewrite = 0
           /\ run[r].result.success = FALSE
           /\ run[r].result.safety_issues = run[r].final_safety.issues

C13_Witness ==
    /\ StoppedAtSecondCheck(1)
    /\ run[1].safety_result.passes
    /\ run[1].kind = "tracked"
    /\ run[1].final_safety.issues = <<"weapons">>
    /\ run[1].result.safety_issues = <<"weapons">>

C13_WitnessUntracked ==
    /\ StoppedAtSecondCheck(1)
    /\ run[1].kind = "untracked"
    /\ run[1].result.safety_issues = <<"weapons">>

(***************************************************************************)
(* Claims on the times of a result.                                        *)
(***************************************************************************)
\* C14: ai_time of a successful result is the sum of the latencies of the
\* stage calls made in the run, without the time waited for the review.
C14_AiTimeIsStageSum ==
    \A r \in AllRunIds :
        (RunDone(r) /\ run[r].result.success)
        => run[r].result.ai_time = run[r].stage_time

\* a reviewed run through the rewrite branch: six stage calls with
\* latencies 1, 2, 1, 2, 1, 2 and a review that took time
C14_Witness ==
    /\ RunDone(1)
    /\ run[1].result.success
    /\ run[1].kind = "tracked"
    /\ run[1].calls = [guard |-> 2, response |-> 1, review |-> 1, tone |-> 2,
                       rewrite |-> 1]
    /\ run[1].guard1_time = 1
    /\ run[1].response_time = 2
    /\ run[1].guard2_time = 1
    /\ run[1].tone_time = 2
    /\ run[1].rewrite_time = 3
    /\ run[1].human_time > 0
    /\ run[1].result.ai_time = 9

(***************************************************************************)
(* Claims relating the tracked and the untracked run.                      *)
(***************************************************************************)
\* the stage agents gave run t and run u the same answers
SameAnswers(t, u) ==
    /\ run[t].customer_input = run[u].customer_input
    /\ run[t].safety_result = run[u].safety_result
    /\ run[t].ai_response = run[u].ai_response
    /\ run[t].final_safety = run[u].final_safety
    /\ run[t].tone_result = run[u].tone_result
    /\ run[t].final_tone_result = run[u].final_tone_result

\* C15: a tracked and an untracked run with the same customer input and the
\* same answers of the stage agents make the same stage calls and return
\* results with the same success, final_response, safety_issues,
\* tone_issues and human_time.
C15_TrackedLikeUntracked ==
    \A t, u \in AllRunIds :
        (/\ RunDone(t) /\ run[t].kind = "tracked"
         /\ RunDone(u) /\ run[u].kind = "untracked"
         /\ SameAnswers(t, u))
        => /\ run[t].calls = run[u].calls
           /\ run[t].result.success = run[u].result.success
           /\ run[t].result.final_response = run[u].result.final_response
           /\ run[t].result.safety_issues = run[u].result.safety_issues
           /\ run[t].result.tone_issues = run[u].result.tone_issues
           /\ run[t].result.human_time = run[u].result.human_time


\* ---------------------------------------------------------------------
\* C16: a fault raised inside a run does not escape: the run returns, and
\* what the caller receives is a result with success = false whose
\* final_response is "Processing failed: " followed by the exception text.
\* Tracker calls are taken as atomic and non-raising.
Faulted(r) == RunDone(r) /\ run[r].fault # NoFault

C16_FaultBecomesFailedResult ==
    \A r \in DOMAIN run :
        /\ RunDone(r) => run[r].result # NoResult
        /\ Faulted(r) =>
              /\ run[r].result.success = FALSE
              /\ run[r].result.final_response = <<"Processing failed:", run[r].fault>>
              /\ run[r].result.customer_input = run[r].customer_input
              /\ run[r].kind = "tracked" =>
                    \E i \in DOMAIN results_history : results_history[i] = run[r].result

\* The reviewer submitted a null edited_response; len(None) raised inside
\* the tracked run and the run returned the failed result.
C16_Witness ==
    \E r \in DOMAIN run :
        /\ Faulted(r)
        /\ run[r].fault = LenFault
        /\ run[r].human_result.edited_response = NoneText
        /\ run[r].result.success = FALSE


\* ---------------------------------------------------------------------
\* C17: in a tracked run with human_review_timeout T > 0 whose review
\* timed out, the response handed to the second safety check is the
\* unchanged draft and the human_time of the result is exactly T * 1000.
ReviewTimedOut(r) ==
    /\ RunDone(r)
    /\ run[r].kind = "tracked"
    /\ config.human_review_timeout > 0
    /\ run[r].calls.review = 1
    /\ run[r].human_result.review_notes = TimeoutNotes

C17_TimeoutKeepsDraftFullTime ==
    \A r \in DOMAIN run :
        ReviewTimedOut(r) =>
            /\ run[r].human_result.edited_response = run[r].ai_response
            /\ run[r].result.success =>
                  run[r].result.human_time = config.human_review_timeout * 1000


\* ---------------------------------------------------------------------
\* C18: submit_review for a review id that was never handed out, or that
\* is already resolved, answers with an error and enqueues nothing; every
\* claimed review yields at most one outcome, also when two calls for the
\* same id run concurrently.
Succeeded(s) == submitter[s].pc = "returned" /\ submitter[s].answer = "success"

\* outcomes put on result_queue so far: those still queued and those a
\* waiter has taken
OutcomesPut ==
    Len(result_queue) +
    Cardinality({w \in WaiterIds : /\ WaiterReturned(w)
                                   /\ waiter[w].result.review_notes # TimeoutNotes})

C18_OneOutcomePerClaim ==
    /\ \A s \in SubmitterIds :
          Succeeded(s) => submitter[s].review_id \in 1..next_review_id
    /\ \A s, t \in SubmitterIds :
          Succeeded(s) /\ Succeeded(t) /\ submitter[s].review_id = submitter[t].review_id
              => s = t
    /\ OutcomesPut = Cardinality({s \in SubmitterIds : Succeeded(s)})

\* Two calls for the same claimed review both passed the membership test;
\* one put the outcome, the other was answered with an error.
C18_Witness ==
    \E s, t \in SubmitterIds :
        /\ s # t
        /\ submitter[s].review_id = submitter[t].review_id
        /\ Succeeded(s)
        /\ submitter[t].pc = "returned"
        /\ submitter[t].checked
        /\ submitter[t].answer = "error"
        /\ OutcomesPut = 1


\* ---------------------------------------------------------------------
\* C19: get_review does not block.  With nothing queued it answers
\* no_reviews and changes nothing; otherwise it takes the oldest queued
\* request off review_queue and records it in active_reviews under a
\* review id not used before, so no request is handed to two claims.
Requested == {w \in WaiterIds : waiter[w].pc # "idle"}

ClaimStep ==
    /\ review_queue # <<>>
    /\ GetReviewAnswer(review_queue, next_review_id').status = "success"
    /\ review_queue' = Tail(review_queue)
    /\ next_review_id' > next_review_id
    /\ \A entry \in active_reviews : entry.review_id # next_review_id'
    /\ active_reviews' = active_reviews \cup
          {[review_id |-> next_review_id', data |-> Head(review_queue)]}
    /\ UNCHANGED <<result_queue, waiter>>

ClaimedOnce ==
    /\ review_queue = <<>> =>
          GetReviewAnswer(review_queue, next_review_id + 1) = [status |-> "no_reviews"]
    /\ \A a, b \in active_reviews :
          (a.review_id = b.review_id \/ a.data.req = b.data.req) => a = b
    /\ \A a \in active_reviews, i \in DOMAIN review_queue :
          review_queue[i].req # a.data.req
    /\ next_review_id + Len(review_queue) = Cardinality(Requested)

TimedOut(w) ==
    /\ WaiterReturned(w)
    /\ waiter[w].timeout > 0
    /\ waiter[w].result.review_notes = TimeoutNotes

C20_TimedOutRequestGone ==
    \A w \in WaiterIds :
        TimedOut(w) =>
            /\ \A i \in DOMAIN review_queue : review_queue[i].req # <<"waiter", w>>
            /\ \A entry \in active_reviews : entry.data.req # <<"waiter", w>>


(***************************************************************************)
(* Claims on the interactive session.                                      *)
(***************************************************************************)
\* C21: reset_demo, in whatever demo state it is called, leaves demo_state
\* idle, the scenario index 0, the results empty, no current scenario id or
\* result, an empty progress map, no in-flight review and both queues
\* empty.
SessionCleared ==
    /\ demo_state = "idle"
    /\ current_scenario_index = 0
    /\ demo_results = <<>>
    /\ current_scenario_result = NoResult
    /\ current_scenario_id = NoId
    /\ \A id \in ScenarioIds : ~pipeline_progress[id].present
    /\ active_reviews = {}
    /\ review_queue = <<>>
    /\ result_queue = <<>>

PreReset(req) == req[1] = "run" /\ run[req[2]].gen < resets

StaleProgress ==
    \E id \in ScenarioIds :
        pipeline_progress[id].present /\ pipeline_progress[id].gen < resets

StaleReviews ==
    \/ \E entry \in active_reviews : PreReset(entry.data.req)
    \/ \E i \in DOMAIN review_queue : PreReset(review_queue[i].req)
    \/ \E i \in DOMAIN result_queue : PreReset(result_queue[i].req)

C22_ResetAtomic ==
    (demo_state = "idle" /\ resetting # "idle") => ~StaleProgress /\ ~StaleReviews


\* C23: start_interactive_demo is a transition from idle or completed to
\* running that puts the scenario index at 0 and empties the results; no
\* other operation makes demo_state running.
StartStep ==
    /\ demo_state' = "running"
    /\ current_scenario_index' = 0
    /\ demo_results' = <<>>
    /\ pipeline_progress' = ClearedProgress
    /\ <<demo_state, current_scenario_index, demo_results, pipeline_progress>>' #
          <<demo_state, current_scenario_index, demo_results, pipeline_progress>>
    /\ UNCHANGED <<current_scenario_id, current_scenario_result, run, resets>>

C23_StartFromIdleOrCompleted ==
    [][/\ StartStep => demo_state \in {"idle", "completed"}
       /\ (demo_state # "running" /\ demo_state' = "running") => StartStep]_vars


\* C24: next_scenario acts only while demo_state is running, advances the
\* scenario index by one and makes the session completed exactly when the
\* index reaches the number of scenarios; so the index stays within
\* 0..NumScenarios, and the session is completed exactly at NumScenarios.
C24_IndexInRange ==
    /\ current_scenario_index \in 0..NumScenarios
    /\ demo_state = "completed" => current_scenario_index = NumScenarios
    /\ demo_state = "running" => current_scenario_index < NumScenarios


\* C25: the interactive session has at most one scenario active: never
\* are two background runs started by process_current_scenario in flight
\* at the same time.
InFlight(r) == run[r].kind = "tracked" /\ run[r].pc \notin {"idle", "done"}

C25_OneRunInFlight ==
    \A r, q \in DOMAIN run : InFlight(r) /\ InFlight(q) => r = q


(***************************************************************************)
(* Claims on the text agents.                                              *)
(***************************************************************************)
\* C26: generate_response does not raise; when the request has exhausted
\* its retries it returns the canned fallback reply, and whatever happens
\* the draft it returns is not empty.
C26_DraftNeverEmpty ==
    call.op = "generate_response" =>
        /\ call.text # <<>>
        /\ CharLen(call.text) >= MinLength
        /\ call.req.kind # "return" => call.text = FallbackResponse

C26_Witness ==
    /\ call.op = "generate_response"
    /\ config.max_retries = MaxN
    /\ call.req.kind = "raise"
    /\ call.req.calls = MaxN
    /\ call.text = FallbackResponse

Classified(text, marker, table, generic) ==
    LET normalised == Upper(Strip(text))
        codes == Matching(table, normalised)
    IN  IF ~Contains(normalised, marker) THEN Moderation(TRUE, <<>>)
        ELSE IF codes = <<>> THEN Moderation(FALSE, <<generic>>)
        ELSE Moderation(FALSE, codes)

C28_WitnessGeneric ==
    /\ call.op = "validate_tone"
    /\ call.req.value = <<"fail">>
    /\ call.res = Moderation(FALSE, <<"tone_violation">>)


\* C29: an answer of the service with no choices or with zero-length
\* content is never what _make_groq_request returns: the attempt is
\* followed by the same wait and retry as an exception of the service, and
\* it is one of the max_retries attempts (when it is the last one, the
\* request raises).
Blank(o) == o.t = "nochoices" \/ (o.t = "content" /\ o.c = <<>>)

C29_BlankIsFailure ==
    call.op = "_make_groq_request" =>
        /\ call.req.calls > 0 => call.req.calls <= config.max_retries
        /\ call.req.kind = "return" => ~Blank(call.svc[call.req.calls])
        /\ \A i \in 1..call.req.calls :
              (Blank(call.svc[i]) \/ call.svc[i] = Raise) =>
                 \/ /\ i < call.req.calls
                    /\ call.req.waits[i] = config.retry_delay * Pow2(i - 1)
                 \/ /\ i = call.req.calls
                    /\ i = config.max_retries
                    /\ call.req.kind = "raise"

\* No choices, then empty content, then an answer: two retries.
C29_Witness ==
    /\ call.op = "_make_groq_request"
    /\ call.svc[1] = NoChoices
    /\ call.svc[2] = Content(<<>>)
    /\ call.req.kind = "return"
    /\ call.req.calls = 3
    /\ Len(call.req.waits) = 2

\* Empty content on the last attempt allowed: the request raises.
C29_WitnessLast ==
    /\ call.op = "_make_groq_request"
    /\ config.max_retries = 2
    /\ call.svc[1] = Raise
    /\ call.svc[2] = Content(<<>>)
    /\ call.req.kind = "raise"
    /\ call.req.calls = 2


\* C30: when the review wait of a tracked run returns an outcome a
\* reviewer submitted for the run's request, the text the run hands to the
\* second safety check and to tone validation is the reviewer's edited
\* text, and when tone validation passes the same text is the
\* final_response of the result.
ReviewerOutcome(r) ==
    /\ run[r].kind = "tracked"
    /\ run[r].calls.review = 1
    /\ run[r].human_result # NoReview
    /\ run[r].human_result.review_notes # TimeoutNotes
    /\ run[r].human_result.req = <<"run", r>>

Acquire(lock) == [k |-> "acquire", o |-> lock]
Release(lock) == [k |-> "release", o |-> lock]
Read(object) == [k |-> "read", o |-> object]
Write(object) == [k |-> "write", o |-> object]
Await(what) == [k |-> "await", o |-> what]

\* human_loop.py 185-200
start_interactive_demo_locking ==
    <<Write("demo_state"), Write("current_scenario_index"),
      Write("demo_results"), Write("pipeline_progress")>>

\* human_loop.py 217-238; the background thread is started after the block
process_current_scenario_locking ==
    <<Read("demo_state"), Read("current_scenario_index"),
      Write("current_scenario_id"),
      Acquire("progress_lock"), Write("pipeline_progress"),
      Release("progress_lock")>>

\* human_loop.py 240-276: the answer is built inside the block
get_pipeline_progress_locking ==
    <<Read("current_scenario_id"),
      Acquire("progress_lock"), Read("pipeline_progress"),
      Release("progress_lock")>>

\* Variant of reset_demo_locking: the review state is cleared inside the
\* block of progress_lock.
reset_demo_locking_nested ==
    <<Write("demo_state"), Write("current_scenario_index"),
      Write("demo_results"), Write("current_scenario_result"),
      Write("current_scenario_id"),
      Acquire("progress_lock"), Write("pipeline_progress"),
      Acquire("review_lock"), Write("active_reviews"),
      Write("review_queue"), Write("result_queue"),
      Release("review_lock"), Release("progress_lock")>>

\* human_loop.py 338-368; the queues are drained with get_nowait()
reset_demo_locking ==
    <<Write("demo_state"), Write("current_scenario_index"),
      Write("demo_results"), Write("current_scenario_result"),
      Write("current_scenario_id"),
      Acquire("progress_lock"), Write("pipeline_progress"),
      Release("progress_lock"),
      Acquire("review_lock"), Write("active_reviews"),
      Write("review_queue"), Write("result_queue"),
      Release("review_lock")>>

\* human_loop.py 370-378
health_locking ==
    <<Read("demo_state"), Read("active_reviews"), Read("pipeline_progress")>>

\* human_loop.py 125-148
get_review_locking ==
    <<Write("review_queue"),
      Acquire("review_lock"), Write("active_reviews"), Release("review_lock")>>

\* human_loop.py 150-183
submit_review_locking ==
    <<Read("active_reviews"),
      Acquire("review_lock"), Write("active_reviews"), Release("review_lock"),
      Write("result_queue")>>

\* human_loop.py 380-396: track_pipeline_step, complete_pipeline_step and
\* complete_pipeline have the same shape
track_pipeline_step_locking ==
    <<Acquire("progress_lock"), Read("pipeline_progress"),
      Write("pipeline_progress"), Release("progress_lock")>>

\* base.py 36-66: a call of the service, a backoff sleep, the retry
make_groq_request_locking ==
    <<Await("service"), Await("sleep"), Await("service")>>

\* pipeline_demo_vercel.py 293-330
request_review_via_tracker_locking ==
    <<Write("review_queue"), Await("result_queue")>>

\* human_loop.py 424-448 with pipeline_demo_vercel.py 154-291: the start
\* step, a stage that calls an agent, the review stage, the end of the run
process_scenario_async_locking ==
    track_pipeline_step_locking \o track_pipeline_step_locking
    \o track_pipeline_step_locking \o make_groq_request_locking
    \o track_pipeline_step_locking
    \o track_pipeline_step_locking \o request_review_via_tracker_locking
    \o track_pipeline_step_locking
    \o <<Write("demo_results"), Write("current_scenario_result")>>
    \o track_pipeline_step_locking

Handlers ==
    {"start_interactive_demo", "process_current_scenario",
     "get_pipeline_progress", "reset_demo", "health", "get_review",
     "submit_review", "_process_scenario_async"}

Locking(handler) ==
    CASE handler = "start_interactive_demo" -> start_interactive_demo_locking
      [] handler = "process_current_scenario" -> process_current_scenario_locking
      [] handler = "get_pipeline_progress" -> get_pipeline_progress_locking
      [] handler = "reset_demo" -> reset_demo_locking
      [] handler = "health" -> health_locking
      [] handler = "get_review" -> get_review_locking
      [] handler = "submit_review" -> submit_review_locking
      [] handler = "_process_scenario_async" -> process_scenario_async_locking
      [] OTHER -> <<>>

Executing(t) == thread[t].handler # "none" /\ thread[t].pc <= Len(Locking(thread[t].handler))

\* the step thread t is about to execute
NextStep(t) == Locking(thread[t].handler)[thread[t].pc]

At(t, kind) == Executing(t) /\ NextStep(t).k = kind

Holder(lock) == IF lock = "progress_lock" THEN progress_lock ELSE review_lock

Advanced(t) == [thread EXCEPT ![t].pc = @ + 1]

LockingFrame ==
    UNCHANGED <<config, call, run, waiter, submitter, resetting, advancing,
                review_queue, result_queue, active_reviews, next_review_id,
                pipeline_progress, demo_state, current_scenario_index,
                demo_results, current_scenario_result, current_scenario_id,
                results_history, resets, after_reset>>

\* a request arrives, or a background thread is started
ThreadStarts(t) ==
    /\ thread[t] = IdleThread
    /\ \E handler \in Handlers :
          thread' = [thread EXCEPT ![t] = [handler |-> handler, pc |-> 1]]
    /\ UNCHANGED <<progress_lock, review_lock>>
    /\ LockingFrame

\* with lock: the thread blocks until the lock is free
LockAcquire(t) ==
    /\ At(t, "acquire")
    /\ Holder(NextStep(t).o) = Unlocked
    /\ IF NextStep(t).o = "progress_lock"
       THEN progress_lock' = t /\ UNCHANGED review_lock
       ELSE review_lock' = t /\ UNCHANGED progress_lock
    /\ thread' = Advanced(t)
    /\ LockingFrame

\* the end of the with block
LockRelease(t) ==
    /\ At(t, "release")
    /\ IF NextStep(t).o = "progress_lock"
       THEN progress_lock' = Unlocked /\ UNCHANGED review_lock
       ELSE review_lock' = Unlocked /\ UNCHANGED progress_lock
    /\ thread' = Advanced(t)
    /\ LockingFrame

\* a read or a write of a shared object
ObjectAccess(t) ==
    /\ At(t, "read") \/ At(t, "write")
    /\ thread' = Advanced(t)
    /\ UNCHANGED <<progress_lock, review_lock>>
    /\ LockingFrame

\* the wait is over
AwaitReturns(t) ==
    /\ At(t, "await")
    /\ thread' = Advanced(t)
    /\ UNCHANGED <<progress_lock, review_lock>>
    /\ LockingFrame

\* the handler returns, the background thread ends
ThreadReturns(t) ==
    /\ thread[t].handler # "none"
    /\ ~Executing(t)
    /\ thread' = [thread EXCEPT ![t] = IdleThread]
    /\ UNCHANGED <<progress_lock, review_lock>>
    /\ LockingFrame

LockingNext ==
    \E t \in ThreadIds :
        \/ ThreadStarts(t)
        \/ LockAcquire(t)
        \/ LockRelease(t)
        \/ ObjectAccess(t)
        \/ AwaitReturns(t)
        \/ ThreadReturns(t)

SpecLocking == Init /\ [][LockingNext]_vars

\* C31: every read and every write of pipeline_progress is made by a thread
\* that holds progress_lock.
C31_ProgressUnderLock ==
    \A t \in ThreadIds :
        (/\ At(t, "read") \/ At(t, "write")
         /\ NextStep(t).o = "pipeline_progress")
        => progress_lock = t

\* C32: a thread that waits (for the model service, in a backoff sleep, for
\* the review outcome) holds neither lock; no thread takes a lock while it
\* holds one; so a thread that waits for a lock waits for a thread that
\* is neither waiting nor blocked itself.
Holds(t, lock) == Holder(lock) = t

HoldsNone(t) == ~Holds(t, "progress_lock") /\ ~Holds(t, "review_lock")

StepsInOrder(progress) ==
    /\ progress.current_step = Len(progress.steps)
    /\ \A i \in 1..Len(progress.steps) :
          progress.steps[i].status = "running" => i = Len(progress.steps)

\* progress after is progress before with the last step completed or with
\* steps appended
GrownFrom(before, after) ==
    /\ Len(after.steps) >= Len(before.steps)
    /\ \A i \in 1..Len(before.steps) :
          /\ after.steps[i].step_name = before.steps[i].step_name
          /\ after.steps[i].by = before.steps[i].by
          /\ i < Len(before.steps) => after.steps[i] = before.steps[i]
          /\ Len(after.steps) > Len(before.steps) =>
                after.steps[i].status # "running"

C33_StepsAppendOnly ==
    /\ [](\A sid \in ScenarioIds :
            pipeline_progress[sid].present => StepsInOrder(pipeline_progress[sid]))
    /\ [][\A sid \in ScenarioIds :
            (pipeline_progress[sid].present /\ pipeline_progress'[sid].present)
            => GrownFrom(pipeline_progress[sid], pipeline_progress'[sid])]_vars

\* The run is in its tone validation: five completed steps and the
\* running one.
C33_Witness ==
    \E sid \in ScenarioIds :
        LET steps == pipeline_progress[sid].steps
        IN  /\ pipeline_progress[sid].present
            /\ Len(steps) = 6
            /\ pipeline_progress[sid].current_step = 6
            /\ steps[6].step_name = "tone_validation"
            /\ steps[6].status = "running"
            /\ \A i \in 1..5 : steps[i].ended


\* C34: a step is written once after its creation, by its completion: no
\* step of a tracked run has its end time, status or details written a
\* second time.
C34_StepCompletedOnce ==
    \A sid \in ScenarioIds :
        \A i \in 1..Len(pipeline_progress[sid].steps) :
            LET step == pipeline_progress[sid].steps[i]
            IN  /\ step.completions <= 1
                /\ step.ended <=> step.completions = 1


\* C35: when a tracked run whose progress entry was not cleared has
\* terminated, every step of the entry has been completed (none is
\* running), and a step has status failed only if the run's result has
\* success = false.
TerminatedWithProgress(r) ==
    /\ RunDone(r)
    /\ run[r].kind = "tracked"
    /\ pipeline_progress[run[r].sid].present

C35_StepsAllCompleted ==
    \A r \in DOMAIN run :
        TerminatedWithProgress(r) =>
            LET steps == pipeline_progress[run[r].sid].steps
            IN  /\ steps # <<>>
                /\ \A i \in 1..Len(steps) :
                      /\ steps[i].status # "running"
                      /\ steps[i].ended
                      /\ steps[i].status = "failed" => ~run[r].result.success

\* A run stopped by its first safety check: the step is failed, none runs.
C35_Witness ==
    \E r \in DOMAIN run :
        /\ TerminatedWithProgress(r)
        /\ ~run[r].result.success
        /\ LET steps == pipeline_progress[run[r].sid].steps
           IN  /\ Len(steps) = 2
               /\ steps[2].step_name = "safety_check"
               /\ steps[2].status = "failed"

\* A run that succeeded after a rewrite: seven completed steps.
C35_WitnessSuccess ==
    \E r \in DOMAIN run :
        /\ TerminatedWithProgress(r)
        /\ run[r].result.success
        /\ run[r].calls.rewrite = 1
        /\ \A i \in 1..Len(pipeline_progress[run[r].sid].steps) :
              pipeline_progress[run[r].sid].steps[i].status = "completed"


\* C36: from a reset_demo until the next start_interactive_demo the session
\* stays as the reset left it, also when a background run that was started
\* before the reset finishes meanwhile: demo_results stays empty,
\* current_scenario_result stays null and demo_state stays idle.
ResetNotRestarted == after_reset /\ demo_state = "idle"

C36_ResetStateStays ==
    /\ [](ResetNotRestarted =>
            /\ demo_results = <<>>
            /\ current_scenario_result = NoResult)
    /\ [][(ResetNotRestarted /\ demo_state' # "idle") => StartStep]_vars


\* C37: the progress entry of a started scenario, unless it is removed,
\* eventually has its end time set, on every terminal path of the run: a
\* poller of get_pipeline_progress eventually sees completed = true (or
\* the no-progress answer once the entry is gone), and every answer is a
\* snapshot or the no-progress answer.
Polled == get_pipeline_progress

\* process_current_scenario has created the entry and started run 1 for it
ScenarioStarted == run[1].kind = "tracked"

EntryCompletedOrGone ==
    /\ run[1].kind = "tracked"
    /\ \/ ~pipeline_progress[run[1].sid].present
       \/ /\ pipeline_progress[run[1].sid].ended
          /\ current_scenario_id = run[1].sid => Polled.completed

C37_ProgressEventuallyCompleted ==
    /\ ScenarioStarted ~> EntryCompletedOrGone
    /\ [](Polled.status \in {"success", "no_progress"})

\* The run ended in its except clause and the poller sees it completed.
C37_Witness ==
    /\ RunDone(1)
    /\ run[1].kind = "tracked"
    /\ run[1].fault = LenFault
    /\ ~run[1].result.success
    /\ Polled.status = "success"
    /\ Polled.completed
    /\ Polled.steps[Len(Polled.steps)].status = "failed"


\* C38: a result with success = true has no safety issues, and has tone
\* issues exactly when the run called the rewrite agent.  The codes of the
\* fail-open results (safety_check_error, tone_validation_error) occur in
\* no result, and a fail-open tone result starts no rewrite.
Codes(issues) == {issues[i] : i \in DOMAIN issues}

FailOpenCodes == {"safety_check_error", "tone_validation_error"}

C38_SuccessResultIssues ==
    \A r \in DOMAIN run :
        /\ (RunDone(r) /\ run[r].result.success) =>
              /\ run[r].result.safety_issues = <<>>
              /\ run[r].result.tone_issues # <<>> <=> run[r].calls.rewrite >= 1
        /\ RunDone(r) =>
              (Codes(run[r].result.safety_issues) \cup Codes(run[r].result.tone_issues))
                 \cap FailOpenCodes = {}
        /\ "tone_validation_error" \in Codes(run[r].tone_result.issues) =>
              /\ run[r].calls.rewrite = 0
              /\ run[r].pc # "content_rewrite"

\* Both checks of the run failed open; the result is clean.
C38_Witness ==
    \E r \in DOMAIN run :
        /\ RunDone(r)
        /\ run[r].result.success
        /\ run[r].safety_result.issues = <<"safety_check_error">>
        /\ run[r].tone_result.issues = <<"tone_validation_error">>
        /\ run[r].calls.rewrite = 0
        /\ run[r].result.tone_issues = <<>>

\* The tone check failed, the rewrite agent was called, the issues are in
\* the result.
C38_WitnessRewrite ==
    \E r \in DOMAIN run :
        /\ RunDone(r)
        /\ run[r].result.success
        /\ run[r].calls.rewrite = 1
        /\ run[r].result.tone_issues = <<"casual_language">>


\* C39: every run, tracked or untracked, appends one result to
\* results_history on whatever path it ends, and a later run leaves the
\* results that are already there as they are.
DoneRuns == {r \in DOMAIN run : RunDone(r)}

OneResultPerRun ==
    /\ Len(results_history) = Cardinality(DoneRuns)
    /\ \A r \in DoneRuns :
          \E i \in DOMAIN results_history : results_history[i] = run[r].result

HistoryKept ==
    /\ Len(results_history') \in {Len(results_history), Len(results_history) + 1}
    /\ \A i \in DOMAIN results_history : results_history'[i] = results_history[i]
    /\ Len(results_history') = Len(results_history) + 1 =>
          \E r \in DOMAIN run :
              /\ ~RunDone(r)
              /\ run'[r].pc = "done"
              /\ results_history'[Len(results_history')] = run'[r].result

C39_OneResultPerRun == []OneResultPerRun /\ [][HistoryKept]_vars

\* The tracked run and the untracked run have both ended, one of them
\* without success: two results.
C39_Witness ==
    /\ RunDone(1)
    /\ RunDone(2)
    /\ run[1].kind = "tracked"
    /\ run[2].kind = "untracked"
    /\ Len(results_history) = 2
    /\ \E i \in 1..2 : ~results_history[i].success
    /\ \E i \in 1..2 : results_history[i].success


\* C40: for every max_retries, zero and negative values included,
\* _make_groq_request either returns a non-empty text of the service or
\* raises the error of the exhausted retries; it never ends without a text.
C40_ReturnsTextOrRaises ==
    call.op = "_make_groq_request" =>
        \/ /\ call.req.kind = "return"
           /\ call.req.value # <<>>
           /\ \E i \in 1..MaxN :
                 /\ call.svc[i].t = "content"
                 /\ call.req.value = Strip(call.svc[i].c)
        \/ /\ call.req.kind = "raise"
           /\ call.req.calls = config.max_retries

=============================================================================
